---- MODULE Spec2Model ----
(***************************************************************************)
(* Course recommendation engine: catalog index (CourseSelector), relevance *)
(* ranking and budgeted assembly (recommend_courses), the recommendation   *)
(* cache and the API entry point generate_recommendations.                 *)
(*                                                                         *)
(* Python strings are modelled as sequences of one-character strings, so   *)
(* that lower(), strip() and the substring test `a in b` are computed on   *)
(* the characters.  Scores are held as integers, 200 times the Python      *)
(* float: 5 -> 1000, 3 -> 600, min(level/100, 4)/2 -> min(level, 400),     *)
(* 1.0 -> 200 and 0.5 -> 100.                                              *)
(***************************************************************************)
EXTENDS Integers, Sequences, FiniteSets, TLC

VARIABLES
    courses,              \* CourseSelector.courses: dict in insertion order, as a sequence of Course
    career_goal_mapping,  \* CourseSelector.career_goal_mapping: key -> set of course ids
    subject_mapping,      \* CourseSelector.subject_mapping: key -> set of course ids
    cache,                \* CourseRecommendationCache._cache: key -> list of formatted records
    ai_processor,         \* CourseRecommendationAPI.ai_processor: TRUE when one was given
    op,                   \* the operation that ran last
    args,                 \* its arguments
    result,               \* its return value
    ranked,               \* recommend_courses: ranked_courses after the re-sort, as (course_id, score)
    trace,                \* generate_recommendations: the steps the call ran
    calls,                \* the calls made on CourseRecommendationCache directly, oldest first
    requests              \* the generate_recommendations requests in flight: request -> its position and locals

vars == <<courses, career_goal_mapping, subject_mapping, cache, ai_processor,
          op, args, result, ranked, trace, calls, requests>>

-----------------------------------------------------------------------------
(* String literals of the program and of the catalogs explored.            *)

sEmpty == <<>>
sCS101 == <<"C","S","1","0","1">>
sCS240 == <<"C","S","2","4","0">>
sCS000 == <<"C","S","0","0","0">>
sBUS100 == <<"B","U","S","1","0","0">>
sENG100 == <<"E","N","G","1","0","0">>
sCS410 == <<"C","S","4","1","0">>
sIntroComputing == <<"I","n","t","r","o"," ","t","o"," ","C","o","m","p","u","t","i","n","g">>
sSystemsDesign == <<"S","y","s","t","e","m","s"," ","D","e","s","i","g","n">>
sSeminar == <<"S","e","m","i","n","a","r">>
sMarketing == <<"M","a","r","k","e","t","i","n","g">>
sWriting == <<"W","r","i","t","i","n","g">>
sAdvancedSystems == <<"A","d","v","a","n","c","e","d"," ","S","y","s","t","e","m","s">>
sComputerScience == <<"C","o","m","p","u","t","e","r"," ","S","c","i","e","n","c","e">>
sBusinessDept == <<"B","u","s","i","n","e","s","s">>
sEnglish == <<"E","n","g","l","i","s","h">>
sSoftwareEngineering == <<"S","o","f","t","w","a","r","e"," ","E","n","g","i","n","e","e","r","i","n","g">>
ssoftwareengineering == <<"s","o","f","t","w","a","r","e"," ","e","n","g","i","n","e","e","r","i","n","g">>
sManagementPadded == <<" ","M","a","n","a","g","e","m","e","n","t"," ">>
sBlank == <<" ">>
sBusinessAnalytics == <<"B","u","s","i","n","e","s","s"," ","A","n","a","l","y","t","i","c","s">>
sSystems == <<"S","y","s","t","e","m","s">>
sbusiness == <<"b","u","s","i","n","e","s","s">>
scomputer == <<"c","o","m","p","u","t","e","r">>
sgeneral == <<"g","e","n","e","r","a","l">>
sAnd == <<" ","a","n","d"," ">>
sDot == <<".">>
sAlignsWithYour == <<"A","l","i","g","n","s"," ","w","i","t","h"," ","y","o","u","r"," ">>
sCareerGoal == <<" ","c","a","r","e","e","r"," ","g","o","a","l">>
sCoreBusiness == <<"C","o","r","e"," ","b","u","s","i","n","e","s","s"," ","c","o","u","r","s","e"," ","t","h","a","t"," ","w","i","l","l"," ","h","e","l","p"," ","b","u","i","l","d"," ","y","o","u","r"," ","f","o","u","n","d","a","t","i","o","n"," ","i","n"," ","b","u","s","i","n","e","s","s">>
sTeachesBusiness == <<"T","e","a","c","h","e","s"," ","b","u","s","i","n","e","s","s"," ","s","k","i","l","l","s"," ","t","h","a","t"," ","w","i","l","l"," ","b","e"," ","v","a","l","u","a","b","l","e"," ","f","o","r"," ","y","o","u","r"," ","m","i","n","o","r">>
sRelevantBusiness == <<"R","e","l","e","v","a","n","t"," ","f","o","r"," ","b","u","s","i","n","e","s","s"," ","c","a","r","e","e","r"," ","p","a","t","h","s">>
sDirectlyCovers == <<"D","i","r","e","c","t","l","y"," ","c","o","v","e","r","s"," ">>
sWhichInterested == <<" ","w","h","i","c","h"," ","y","o","u","'","r","e"," ","i","n","t","e","r","e","s","t","e","d"," ","i","n">>
sTeachesSkillsIn == <<"T","e","a","c","h","e","s"," ","s","k","i","l","l","s"," ","i","n"," ">>
sWhichMatch == <<" ","w","h","i","c","h"," ","m","a","t","c","h"," ","y","o","u","r"," ","i","n","t","e","r","e","s","t","s">>
sIntroductory == <<"T","h","i","s"," ","i","n","t","r","o","d","u","c","t","o","r","y"," ","c","o","u","r","s","e"," ","p","r","o","v","i","d","e","s"," ","a"," ","s","t","r","o","n","g"," ","f","o","u","n","d","a","t","i","o","n">>
sIntermediate == <<"T","h","i","s"," ","i","n","t","e","r","m","e","d","i","a","t","e"," ","c","o","u","r","s","e"," ","d","e","v","e","l","o","p","s"," ","i","m","p","o","r","t","a","n","t"," ","s","k","i","l","l","s">>
sAdvanced == <<"T","h","i","s"," ","a","d","v","a","n","c","e","d"," ","c","o","u","r","s","e"," ","e","x","p","l","o","r","e","s"," ","s","p","e","c","i","a","l","i","z","e","d"," ","t","o","p","i","c","s">>
sMatchesInterest == <<"M","a","t","c","h","e","s"," ","y","o","u","r"," ","i","n","t","e","r","e","s","t"," ","i","n"," ">>
sRecommendedBased == <<"R","e","c","o","m","m","e","n","d","e","d"," ","b","a","s","e","d"," ","o","n"," ","y","o","u","r"," ","a","c","a","d","e","m","i","c"," ","i","n","t","e","r","e","s","t","s">>

\* _match_preferred_subjects: the keyword-expansion table
subject_keywords ==
  ( <<"b","u","s","i","n","e","s","s">> :> <<<<"b","u","s","i","n","e","s","s">>,
        <<"m","a","n","a","g","e","m","e","n","t">>,
        <<"m","a","r","k","e","t","i","n","g">>,
        <<"f","i","n","a","n","c","e">>,
        <<"a","c","c","o","u","n","t","i","n","g">>,
        <<"e","c","o","n","o","m","i","c","s">>,
        <<"e","n","t","r","e","p","r","e","n","e","u","r","s","h","i","p">>,
        <<"c","o","m","m","e","r","c","e">>,
        <<"s","t","r","a","t","e","g","y">>,
        <<"l","e","a","d","e","r","s","h","i","p">>>>
  @@ <<"c","o","m","p","u","t","e","r"," ","s","c","i","e","n","c","e">> :> <<<<"p","r","o","g","r","a","m","m","i","n","g">>,
        <<"s","o","f","t","w","a","r","e">>,
        <<"a","l","g","o","r","i","t","h","m">>,
        <<"d","a","t","a"," ","s","t","r","u","c","t","u","r","e">>,
        <<"c","o","d","i","n","g">>,
        <<"d","e","v","e","l","o","p","m","e","n","t">>,
        <<"c","o","m","p","u","t","a","t","i","o","n">>,
        <<"c","o","m","p","u","t","e","r"," ","s","y","s","t","e","m","s">>,
        <<"n","e","t","w","o","r","k","i","n","g">>>>
  @@ <<"d","a","t","a"," ","s","c","i","e","n","c","e">> :> <<<<"d","a","t","a">>,
        <<"s","t","a","t","i","s","t","i","c","s">>,
        <<"a","n","a","l","y","s","i","s">>,
        <<"m","a","c","h","i","n","e"," ","l","e","a","r","n","i","n","g">>,
        <<"a","n","a","l","y","t","i","c","s">>,
        <<"v","i","s","u","a","l","i","z","a","t","i","o","n">>,
        <<"d","a","t","a"," ","m","i","n","i","n","g">>,
        <<"b","i","g"," ","d","a","t","a">>,
        <<"A","I">>>>
  @@ <<"m","a","t","h","e","m","a","t","i","c","s">> :> <<<<"c","a","l","c","u","l","u","s">>,
        <<"a","l","g","e","b","r","a">>,
        <<"g","e","o","m","e","t","r","y">>,
        <<"t","r","i","g","o","n","o","m","e","t","r","y">>,
        <<"p","r","o","b","a","b","i","l","i","t","y">>,
        <<"s","t","a","t","i","s","t","i","c","s">>,
        <<"m","a","t","h","e","m","a","t","i","c","a","l"," ","r","e","a","s","o","n","i","n","g">>,
        <<"n","u","m","b","e","r"," ","t","h","e","o","r","y">>>>
  @@ <<"p","h","y","s","i","c","s">> :> <<<<"m","e","c","h","a","n","i","c","s">>,
        <<"o","p","t","i","c","s">>,
        <<"t","h","e","r","m","o","d","y","n","a","m","i","c","s">>,
        <<"q","u","a","n","t","u","m"," ","m","e","c","h","a","n","i","c","s">>,
        <<"r","e","l","a","t","i","v","i","t","y">>,
        <<"a","s","t","r","o","p","h","y","s","i","c","s">>,
        <<"e","l","e","c","t","r","o","d","y","n","a","m","i","c","s">>,
        <<"n","u","c","l","e","a","r"," ","p","h","y","s","i","c","s">>>>
  @@ <<"b","i","o","l","o","g","y">> :> <<<<"g","e","n","e","t","i","c","s">>,
        <<"e","v","o","l","u","t","i","o","n">>,
        <<"m","o","l","e","c","u","l","a","r"," ","b","i","o","l","o","g","y">>,
        <<"c","e","l","l"," ","b","i","o","l","o","g","y">>,
        <<"e","c","o","l","o","g","y">>,
        <<"a","n","a","t","o","m","y">>,
        <<"p","h","y","s","i","o","l","o","g","y">>,
        <<"b","i","o","c","h","e","m","i","s","t","r","y">>>>
  @@ <<"c","h","e","m","i","s","t","r","y">> :> <<<<"o","r","g","a","n","i","c"," ","c","h","e","m","i","s","t","r","y">>,
        <<"i","n","o","r","g","a","n","i","c"," ","c","h","e","m","i","s","t","r","y">>,
        <<"b","i","o","c","h","e","m","i","s","t","r","y">>,
        <<"p","h","y","s","i","c","a","l"," ","c","h","e","m","i","s","t","r","y">>,
        <<"c","h","e","m","i","c","a","l"," ","e","n","g","i","n","e","e","r","i","n","g">>,
        <<"l","a","b","o","r","a","t","o","r","y"," ","t","e","c","h","n","i","q","u","e","s">>>>
  @@ <<"h","i","s","t","o","r","y">> :> <<<<"a","n","c","i","e","n","t"," ","h","i","s","t","o","r","y">>,
        <<"m","o","d","e","r","n"," ","h","i","s","t","o","r","y">>,
        <<"w","o","r","l","d"," ","w","a","r","s">>,
        <<"c","u","l","t","u","r","a","l"," ","h","i","s","t","o","r","y">>,
        <<"p","o","l","i","t","i","c","a","l"," ","h","i","s","t","o","r","y">>,
        <<"e","c","o","n","o","m","i","c"," ","h","i","s","t","o","r","y">>,
        <<"h","i","s","t","o","r","i","c","a","l"," ","a","n","a","l","y","s","i","s">>>>
  @@ <<"p","s","y","c","h","o","l","o","g","y">> :> <<<<"c","o","g","n","i","t","i","v","e"," ","p","s","y","c","h","o","l","o","g","y">>,
        <<"b","e","h","a","v","i","o","r","a","l"," ","s","c","i","e","n","c","e">>,
        <<"m","e","n","t","a","l"," ","h","e","a","l","t","h">>,
        <<"n","e","u","r","o","s","c","i","e","n","c","e">>,
        <<"d","e","v","e","l","o","p","m","e","n","t","a","l"," ","p","s","y","c","h","o","l","o","g","y">>,
        <<"p","e","r","s","o","n","a","l","i","t","y"," ","p","s","y","c","h","o","l","o","g","y">>>>
  @@ <<"e","n","g","i","n","e","e","r","i","n","g">> :> <<<<"c","i","v","i","l"," ","e","n","g","i","n","e","e","r","i","n","g">>,
        <<"m","e","c","h","a","n","i","c","a","l"," ","e","n","g","i","n","e","e","r","i","n","g">>,
        <<"e","l","e","c","t","r","i","c","a","l"," ","e","n","g","i","n","e","e","r","i","n","g">>,
        <<"c","h","e","m","i","c","a","l"," ","e","n","g","i","n","e","e","r","i","n","g">>,
        <<"r","o","b","o","t","i","c","s">>,
        <<"d","e","s","i","g","n">>>>
  @@ <<"m","u","s","i","c">> :> <<<<"m","u","s","i","c"," ","t","h","e","o","r","y">>,
        <<"n","o","t","a","t","i","o","n">>,
        <<"c","o","m","p","o","s","i","t","i","o","n">>,
        <<"p","e","r","f","o","r","m","a","n","c","e">>,
        <<"c","l","a","s","s","i","c","a","l"," ","m","u","s","i","c">>,
        <<"i","n","s","t","r","u","m","e","n","t","a","t","i","o","n">>,
        <<"g","e","n","r","e","s">>,
        <<"o","r","c","h","e","s","t","r","a","t","i","o","n">>>>
  @@ <<"p","h","i","l","o","s","o","p","h","y">> :> <<<<"e","t","h","i","c","s">>,
        <<"l","o","g","i","c">>,
        <<"e","p","i","s","t","e","m","o","l","o","g","y">>,
        <<"m","e","t","a","p","h","y","s","i","c","s">>,
        <<"e","x","i","s","t","e","n","t","i","a","l","i","s","m">>,
        <<"a","e","s","t","h","e","t","i","c","s">>,
        <<"p","h","i","l","o","s","o","p","h","i","c","a","l"," ","a","n","a","l","y","s","i","s">>>>
  @@ <<"a","r","t">> :> <<<<"p","a","i","n","t","i","n","g">>,
        <<"s","c","u","l","p","t","u","r","e">>,
        <<"d","i","g","i","t","a","l"," ","a","r","t">>,
        <<"a","r","t"," ","h","i","s","t","o","r","y">>,
        <<"v","i","s","u","a","l"," ","a","r","t","s">>,
        <<"d","e","s","i","g","n">>,
        <<"i","l","l","u","s","t","r","a","t","i","o","n">>>>
  @@ <<"a","s","t","r","o","n","o","m","y">> :> <<<<"s","t","a","r","s">>,
        <<"g","a","l","a","x","i","e","s">>,
        <<"c","o","s","m","o","l","o","g","y">>,
        <<"t","e","l","e","s","c","o","p","e","s">>,
        <<"s","p","a","c","e"," ","e","x","p","l","o","r","a","t","i","o","n">>,
        <<"a","s","t","r","o","p","h","y","s","i","c","s">>,
        <<"s","o","l","a","r"," ","s","y","s","t","e","m">>,
        <<"b","l","a","c","k"," ","h","o","l","e","s">>>>)

sMUS100 == <<"M", "U", "S", "1", "0", "0">>
sChoir == <<"C", "h", "o", "i", "r">>
sMusic == <<"M", "u", "s", "i", "c">>
ssoftware == <<"s", "o", "f", "t", "w", "a", "r", "e">>
sGEN000 == <<"G", "E", "N", "0", "0", "0">>
sCommaSpace == <<",", " ">>
sScoreOpen == <<" ", "(", "S", "c", "o", "r", "e", ":", " ">>
sScoreClose == <<")">>

-----------------------------------------------------------------------------
(* Python str operations, computed character by character.                 *)

Upper == <<"A","B","C","D","E","F","G","H","I","J","K","L","M",
           "N","O","P","Q","R","S","T","U","V","W","X","Y","Z">>
LowerCase == <<"a","b","c","d","e","f","g","h","i","j","k","l","m",
               "n","o","p","q","r","s","t","u","v","w","x","y","z">>
Whitespace == {" ", "\t", "\n", "\r"}

\* str.lower() on one character
LowerChar(c) ==
    IF \E i \in 1..Len(Upper) : Upper[i] = c
    THEN LowerCase[CHOOSE i \in 1..Len(Upper) : Upper[i] = c]
    ELSE c

\* str.lower(), character by character
LowerChars(s) == [i \in 1..Len(s) |-> LowerChar(s[i])]

\* str.strip(), character by character: leading and trailing whitespace removed
StripChars(s) ==
    LET keep == {i \in 1..Len(s) : s[i] \notin Whitespace}
    IN  IF keep = {} THEN <<>>
        ELSE LET lo == CHOOSE i \in keep : \A j \in keep : i <= j
                 hi == CHOOSE i \in keep : \A j \in keep : j <= i
             IN  SubSeq(s, lo, hi)

Range(seq) == {seq[i] : i \in 1..Len(seq)}

-----------------------------------------------------------------------------
(* The strings of the catalogs and requests explored, with lower()         *)
(* tabulated over them once; a string outside the table is lowered         *)
(* character by character.                                                 *)

BaseTexts ==
    {sEmpty, sCS101, sCS240, sCS000, sBUS100, sENG100, sCS410,
     sIntroComputing, sSystemsDesign, sSeminar, sMarketing, sWriting, sAdvancedSystems,
     sComputerScience, sBusinessDept, sEnglish,
     sSoftwareEngineering, sManagementPadded, sBlank, sBusinessAnalytics,
     sbusiness, scomputer, sgeneral, ssoftwareengineering, sSystems,
     sMUS100, sChoir, sMusic, ssoftware, sGEN000}

Texts == BaseTexts \cup {StripChars(s) : s \in BaseTexts}

\* (f @@ <<>> is f, held as an explicit table)
LowerTable == [s \in Texts |-> LowerChars(s)] @@ <<>>

\* str.lower()
Lower(s) == IF s \in DOMAIN LowerTable THEN LowerTable[s] ELSE LowerChars(s)

StripTable == [s \in {LowerChars(t) : t \in Texts} |-> StripChars(s)] @@ <<>>

\* str.strip()
Strip(s) == IF s \in DOMAIN StripTable THEN StripTable[s] ELSE StripChars(s)

\* the substring test `sub in s`
Contains(sub, s) ==
    \E i \in 1..(Len(s) - Len(sub) + 1) : SubSeq(s, i, i + Len(sub) - 1) = sub

\* dict.get(key, default) on a dict held as a function
Get(d, key, default) == IF key \in DOMAIN d THEN d[key] ELSE default

EmptyDict == [k \in {} |-> {}]

-----------------------------------------------------------------------------
(* models/base.py: Course                                                  *)

Course(id, title, description, credits, department, level, skills, careers) ==
    [course_id |-> id, title |-> title, description |-> description,
     credits |-> credits, department |-> department, level |-> level,
     skills_taught |-> skills, career_relevance |-> careers]

\* the keys of CourseSelector.courses
CourseIds(cs) == {cs[i].course_id : i \in 1..Len(cs)}

\* CourseSelector.courses[course_id]
CourseById(cs, id) == cs[CHOOSE i \in 1..Len(cs) : cs[i].course_id = id]

\* position of a course in dict (insertion) order
Position(cs, id) == CHOOSE i \in 1..Len(cs) : cs[i].course_id = id

-----------------------------------------------------------------------------
(* CourseSelector.add_course                                               *)

\* mutation: the tag is lower-cased but not trimmed
IndexKeyUntrimmed(tag) == Lower(tag)

\* career.lower().strip() / skill.lower().strip()
IndexKey(tag) == Strip(Lower(tag))

\* the loop over the tags of one course: mapping[key].add(course_id) for every non-empty key
RECURSIVE IndexTags(_, _, _)
IndexTags(mapping, tags, id) ==
    IF tags = <<>> THEN mapping
    ELSE LET key == IndexKey(Head(tags))
             m2  == IF key = <<>> THEN mapping
                    ELSE [k \in DOMAIN mapping \cup {key} |->
                            IF k = key THEN Get(mapping, k, {}) \cup {id}
                            ELSE mapping[k]]
         IN  IndexTags(m2, Tail(tags), id)

\* mutation: a duplicate identifier is accepted again
AcceptsDuplicate(course) == course.course_id # <<>>

\* add_course's guard: the identifier is truthy and not yet a key
Accepts(course) == course.course_id # <<>> /\ course.course_id \notin CourseIds(courses)

\* self.courses[course.course_id] = course: a new key goes last, a key already
\* present keeps its place and takes the new value
DictSet(cs, course) ==
    IF course.course_id \in CourseIds(cs)
    THEN [i \in 1..Len(cs) |-> IF cs[i].course_id = course.course_id THEN course ELSE cs[i]]
    ELSE Append(cs, course)

AddCourse(course) ==
    /\ IF Accepts(course)
       THEN /\ courses' = DictSet(courses, course)
            /\ career_goal_mapping' =
                 IndexTags(career_goal_mapping, course.career_relevance, course.course_id)
            /\ subject_mapping' =
                 IndexTags(subject_mapping, course.skills_taught, course.course_id)
       ELSE UNCHANGED <<courses, career_goal_mapping, subject_mapping>>
    /\ op' = "add_course"
    /\ args' = [course |-> course]
    /\ result' = <<>>
    /\ ranked' = <<>>
    /\ trace' = {}
    /\ UNCHANGED <<cache, ai_processor, calls, requests>>

-----------------------------------------------------------------------------
(* CourseSelector._match_career_goals, _match_preferred_subjects           *)

\* the course ids one career goal matches: direct key, partial key, and the
\* tags of the course objects
CareerMatchesOf(goal) ==
    LET goal_lower == Strip(Lower(goal))
    IN  Get(career_goal_mapping, goal_lower, {})
        \cup UNION {career_goal_mapping[k] :
                      k \in {m \in DOMAIN career_goal_mapping :
                               Contains(goal_lower, m) \/ Contains(m, goal_lower)}}
        \cup {courses[i].course_id :
                i \in {j \in 1..Len(courses) :
                         (\E career \in Range(courses[j].career_relevance) : Contains(goal_lower, Lower(career)))}}

match_career_goals(career_goals) ==
    UNION {CareerMatchesOf(career_goals[i]) : i \in 1..Len(career_goals)}

\* some keyword of the subject occurs in the (lower-cased) text
KeywordIn(subject_lower, text) ==
    (\E keyword \in Range(subject_keywords[subject_lower]) : Contains(keyword, text))

\* KeywordIn, tabulated over the lower-cased strings explored
KeywordTable ==
    [k \in DOMAIN subject_keywords |->
        [t \in {LowerChars(x) : x \in Texts} |-> KeywordIn(k, t)] @@ <<>>] @@ <<>>

HasKeyword(subject_lower, text) ==
    IF text \in DOMAIN KeywordTable[subject_lower]
    THEN KeywordTable[subject_lower][text]
    ELSE KeywordIn(subject_lower, text)

\* the course ids one preferred subject matches: direct key, keyword
\* expansion over title, department and description, partial key
SubjectMatchesOf(subject) ==
    LET subject_lower == Strip(Lower(subject))
    IN  Get(subject_mapping, subject_lower, {})
        \cup (IF subject_lower \in DOMAIN subject_keywords
              THEN {courses[i].course_id :
                      i \in {j \in 1..Len(courses) :
                               \/ HasKeyword(subject_lower, Lower(courses[j].title))
                               \/ HasKeyword(subject_lower, Lower(courses[j].department))
                               \/ HasKeyword(subject_lower, Lower(courses[j].description))}}
              ELSE {})
        \cup UNION {subject_mapping[k] :
                      k \in {m \in DOMAIN subject_mapping :
                               Contains(subject_lower, m) \/ Contains(m, subject_lower)}}

match_preferred_subjects(preferred_subjects) ==
    UNION {SubjectMatchesOf(preferred_subjects[i]) : i \in 1..Len(preferred_subjects)}

-----------------------------------------------------------------------------
(* CourseSelector.rank_courses_by_relevance                                *)

Min(a, b) == IF a < b THEN a ELSE b

\* mutation: the score without the level bonus
ScoreNoBonus(course, career_matched, subject_matched) ==
    (IF course.course_id \in career_matched THEN 1000 ELSE 0)
    + (IF course.course_id \in subject_matched THEN 600 ELSE 0)

\* score of one course, times 200: +5 career, +3 subject, + min(level/100, 4)/2
Score(course, career_matched, subject_matched) ==
    (IF course.course_id \in career_matched THEN 1000 ELSE 0)
    + (IF course.course_id \in subject_matched THEN 600 ELSE 0)
    + Min(course.level, 400)

\* one entry placed into a list already sorted by descending score, after the
\* entries of greater or equal score
InsertStable(sorted, x) ==
    LET n == Cardinality({i \in 1..Len(sorted) : sorted[i].score >= x.score})
    IN  SubSeq(sorted, 1, n) \o <<x>> \o SubSeq(sorted, n + 1, Len(sorted))

\* list.sort(key=lambda x: x[1], reverse=True): stable, descending by score
RECURSIVE SortInto(_, _)
SortInto(sorted, rest) ==
    IF rest = <<>> THEN sorted
    ELSE SortInto(InsertStable(sorted, Head(rest)), Tail(rest))

SortByScore(entries) == SortInto(<<>>, entries)

\* the scoring loop: the courses of positive score, in the order given
RECURSIVE ScoreAll(_, _, _)
ScoreAll(cs, career_matched, subject_matched) ==
    IF cs = <<>> THEN <<>>
    ELSE LET score == Score(Head(cs), career_matched, subject_matched)
             rest  == ScoreAll(Tail(cs), career_matched, subject_matched)
         IN  IF score > 0 THEN <<[course |-> Head(cs), score |-> score]>> \o rest
             ELSE rest

rank_courses_by_relevance(cs, career_goals, preferred_subjects) ==
    SortByScore(ScoreAll(cs, match_career_goals(career_goals),
                         match_preferred_subjects(preferred_subjects)))

-----------------------------------------------------------------------------
(* CourseSelector._generate_recommendation_reason                          *)

\* " and ".join(reasons)
RECURSIVE JoinAnd(_)
JoinAnd(reasons) ==
    IF reasons = <<>> THEN <<>>
    ELSE IF Len(reasons) = 1 THEN reasons[1]
    ELSE reasons[1] \o sAnd \o JoinAnd(Tail(reasons))

\* the "business" clause: department, else a skill, else a career tag
BusinessReasons(course, preferred_subjects) ==
    IF (\E subject \in Range(preferred_subjects) : Lower(subject) = sbusiness)
    THEN IF Contains(sbusiness, Lower(course.department)) THEN <<sCoreBusiness>>
         ELSE IF (\E skill \in Range(course.skills_taught) : Contains(sbusiness, Lower(skill)))
              THEN <<sTeachesBusiness>>
         ELSE IF (\E career \in Range(course.career_relevance) : Contains(sbusiness, Lower(career)))
              THEN <<sRelevantBusiness>>
         ELSE <<>>
    ELSE <<>>

\* the career clause: the first goal contained in a career tag, then break
CareerReasons(course, career_goals) ==
    LET hits == {i \in 1..Len(career_goals) :
                   (\E cr \in Range(course.career_relevance) : Contains(Lower(career_goals[i]), Lower(cr)))}
    IN  IF hits = {} THEN <<>>
        ELSE <<sAlignsWithYour
               \o career_goals[CHOOSE i \in hits : \A j \in hits : i <= j]
               \o sCareerGoal>>

SubjectInTitle(course, subject) == Contains(Lower(subject), Lower(course.title))

SubjectInSkills(course, subject) ==
    (\E skill \in Range(course.skills_taught) : Contains(Lower(subject), Lower(skill)))

\* the subject clause: the first subject found in the title or in a skill, then break
SubjectReasons(course, preferred_subjects) ==
    LET hits == {i \in 1..Len(preferred_subjects) :
                   \/ SubjectInTitle(course, preferred_subjects[i])
                   \/ SubjectInSkills(course, preferred_subjects[i])}
    IN  IF hits = {} THEN <<>>
        ELSE LET subject == preferred_subjects[CHOOSE i \in hits : \A j \in hits : i <= j]
             IN  IF SubjectInTitle(course, subject)
                 THEN <<sDirectlyCovers \o subject \o sWhichInterested>>
                 ELSE <<sTeachesSkillsIn \o subject \o sWhichMatch>>

\* the default clause, by level
LevelReason(course) ==
    IF course.level < 200 THEN sIntroductory
    ELSE IF course.level < 300 THEN sIntermediate
    ELSE sAdvanced

generate_recommendation_reason(course, career_goals, preferred_subjects) ==
    LET reasons == BusinessReasons(course, preferred_subjects)
                   \o CareerReasons(course, career_goals)
                   \o SubjectReasons(course, preferred_subjects)
    IN  JoinAnd(IF reasons = <<>> THEN <<LevelReason(course)>> ELSE reasons) \o sDot

-----------------------------------------------------------------------------
(* CourseSelector.recommend_courses                                        *)

\* mutation: completed courses stay eligible
KeepAll(cs, completed_courses) == cs

\* [c for c in all_courses if c.course_id not in completed_courses]
Eligible(cs, completed_courses) ==
    SelectSeq(cs, LAMBDA c : c.course_id \notin Range(completed_courses))

\* any(course.course_id == rc[0].course_id for rc in ranked_courses)
InRanked(rk, course) == \E i \in 1..Len(rk) : rk[i].course.course_id = course.course_id

\* n copies of one entry, appended one per matching subject
Copies(entry, n) == [i \in 1..n |-> entry]

\* first fallback: a course not yet ranked is appended with score 1.0 once for
\* every preferred subject its department contains
RECURSIVE DepartmentFallback(_, _, _)
DepartmentFallback(rk, eligible_courses, preferred_subjects) ==
    IF eligible_courses = <<>> THEN rk
    ELSE LET course == Head(eligible_courses)
             n == Cardinality({i \in 1..Len(preferred_subjects) :
                                 Contains(Lower(preferred_subjects[i]),
                                          Lower(course.department))})
         IN  DepartmentFallback(
                 IF InRanked(rk, course) THEN rk
                 ELSE rk \o Copies([course |-> course, score |-> 200], n),
                 Tail(eligible_courses), preferred_subjects)

\* second fallback: a course not yet ranked, of level <= 200, is appended with
\* score 0.5 once for every preferred subject its title contains
RECURSIVE IntroFallback(_, _, _)
IntroFallback(rk, eligible_courses, preferred_subjects) ==
    IF eligible_courses = <<>> THEN rk
    ELSE LET course == Head(eligible_courses)
             n == Cardinality({i \in 1..Len(preferred_subjects) :
                                 Contains(Lower(preferred_subjects[i]),
                                          Lower(course.title))})
         IN  IntroFallback(
                 IF InRanked(rk, course) \/ course.level > 200 THEN rk
                 ELSE rk \o Copies([course |-> course, score |-> 100], n),
                 Tail(eligible_courses), preferred_subjects)

\* mutation: the fallback strategy without the re-sort
WidenUnsorted(rk, eligible_courses, preferred_subjects, max_recommendations) ==
    LET first == IF Len(rk) < max_recommendations /\ preferred_subjects # <<>>
                 THEN DepartmentFallback(rk, eligible_courses, preferred_subjects)
                 ELSE rk
    IN  IF /\ Len(rk) < max_recommendations
           /\ preferred_subjects # <<>>
           /\ Len(first) < max_recommendations
        THEN IntroFallback(first, eligible_courses, preferred_subjects)
        ELSE first

\* the fallback strategy and the re-sort
Widen(rk, eligible_courses, preferred_subjects, max_recommendations) ==
    LET first == IF Len(rk) < max_recommendations /\ preferred_subjects # <<>>
                 THEN DepartmentFallback(rk, eligible_courses, preferred_subjects)
                 ELSE rk
        second == IF /\ Len(rk) < max_recommendations
                     /\ preferred_subjects # <<>>
                     /\ Len(first) < max_recommendations
                  THEN IntroFallback(first, eligible_courses, preferred_subjects)
                  ELSE first
    IN  SortByScore(second)

Recommendation(course, reason) ==
    [course_id |-> course.course_id, title |-> course.title,
     credits |-> course.credits, reason |-> reason]

\* mutation: a course is appended without the credit check
FitsAlways(total_credits, course, max_credits) == TRUE

\* mutation: a course that fills the ceiling exactly is skipped
FitsBelow(total_credits, course, max_credits) == total_credits + course.credits < max_credits

\* the negation of the skip test total_credits + course.credits > max_credits
Fits(total_credits, course, max_credits) == total_credits + course.credits <= max_credits

\* mutation: the assembly loop stops at the first course that does not fit
RECURSIVE AssembleStopping(_, _, _, _, _, _, _, _)
AssembleStopping(rk, i, recommendations, total_credits, career_goals, preferred_subjects, max_credits, max_recommendations) ==
    IF i > Len(rk) THEN recommendations
    ELSE LET course == rk[i].course
         IN  IF ~Fits(total_credits, course, max_credits)
             THEN recommendations
             ELSE LET appended ==
                        Append(recommendations,
                               Recommendation(course,
                                   generate_recommendation_reason(
                                       course, career_goals, preferred_subjects)))
                  IN  IF Len(appended) >= max_recommendations THEN appended
                      ELSE AssembleStopping(rk, i + 1, appended, total_credits + course.credits,
                                            career_goals, preferred_subjects,
                                            max_credits, max_recommendations)

\* the assembly loop from entry i on: skip a course that does not fit, append
\* one that does, break once max_recommendations are reached
RECURSIVE Assemble(_, _, _, _, _, _, _, _)
Assemble(rk, i, recommendations, total_credits, career_goals, preferred_subjects, max_credits, max_recommendations) ==
    IF i > Len(rk) THEN recommendations
    ELSE LET course == rk[i].course
         IN  IF ~Fits(total_credits, course, max_credits)
             THEN Assemble(rk, i + 1, recommendations, total_credits,
                           career_goals, preferred_subjects, max_credits, max_recommendations)
             ELSE LET appended ==
                        Append(recommendations,
                               Recommendation(course,
                                   generate_recommendation_reason(
                                       course, career_goals, preferred_subjects)))
                  IN  IF Len(appended) >= max_recommendations THEN appended
                      ELSE Assemble(rk, i + 1, appended, total_credits + course.credits,
                                    career_goals, preferred_subjects,
                                    max_credits, max_recommendations)

\* ranked_courses as it stands when the assembly loop starts
RankedCourses(career_goals, preferred_subjects, completed_courses, max_recommendations) ==
    LET eligible_courses == Eligible(courses, completed_courses)
    IN  Widen(rank_courses_by_relevance(eligible_courses, career_goals, preferred_subjects),
              eligible_courses, preferred_subjects, max_recommendations)

\* the assembly loop run over a ranked list
AssembleFrom(rk, career_goals, preferred_subjects, max_credits, max_recommendations) ==
    Assemble(rk, 1, <<>>, 0, career_goals, preferred_subjects, max_credits, max_recommendations)

recommend_courses(career_goals, preferred_subjects, completed_courses, max_credits, max_recommendations) ==
    AssembleFrom(RankedCourses(career_goals, preferred_subjects, completed_courses,
                               max_recommendations),
                 career_goals, preferred_subjects, max_credits, max_recommendations)

RecommendCourses(career_goals, preferred_subjects, completed_courses, max_credits, max_recommendations) ==
    LET rk == RankedCourses(career_goals, preferred_subjects, completed_courses,
                            max_recommendations)
    IN  /\ op' = "recommend_courses"
        /\ args' = [career_goals |-> career_goals, preferred_subjects |-> preferred_subjects,
                    completed_courses |-> completed_courses, max_credits |-> max_credits,
                    max_recommendations |-> max_recommendations]
        /\ result' = AssembleFrom(rk, career_goals, preferred_subjects,
                                  max_credits, max_recommendations)
        /\ ranked' = [i \in 1..Len(rk) |->
                        [course_id |-> rk[i].course.course_id, score |-> rk[i].score]]
        /\ trace' = {}
        /\ UNCHANGED <<courses, career_goal_mapping, subject_mapping, cache, ai_processor,
                       calls, requests>>

-----------------------------------------------------------------------------
(* CourseSelector.rank_courses_by_relevance, called on the whole catalog   *)

RankCourses(career_goals, preferred_subjects) ==
    /\ op' = "rank_courses_by_relevance"
    /\ args' = [courses |-> courses, career_goals |-> career_goals,
                preferred_subjects |-> preferred_subjects]
    /\ result' = rank_courses_by_relevance(courses, career_goals, preferred_subjects)
    /\ ranked' = <<>>
    /\ trace' = {}
    /\ UNCHANGED <<courses, career_goal_mapping, subject_mapping, cache, ai_processor,
                   calls, requests>>

-----------------------------------------------------------------------------
(* services/course_cache.py: CourseRecommendationCache                     *)

\* mutation: the lookup finds nothing
get_nothing(key) == [found |-> FALSE, value |-> <<>>]

\* cls._cache.get(key): the list stored under the key, or None (found is FALSE)
get_cached_recommendations(key) ==
    IF key \in DOMAIN cache THEN [found |-> TRUE, value |-> cache[key]]
    ELSE [found |-> FALSE, value |-> <<>>]

\* mutation: only the first recommendation is stored
cache_first_recommendation(key, recommendations) ==
    [k \in DOMAIN cache \cup {key} |->
        IF k = key /\ recommendations # <<>> THEN <<Head(recommendations)>> ELSE Get(cache, k, <<>>)]

\* mutation: a key already in the cache keeps its entry
cache_unless_present(key, recommendations) ==
    [k \in DOMAIN cache \cup {key} |-> IF k \in DOMAIN cache THEN cache[k] ELSE recommendations]

\* mutation: a put adds to the list already under the key
cache_extend(key, recommendations) ==
    [k \in DOMAIN cache \cup {key} |->
        IF k = key THEN Get(cache, k, <<>>) \o recommendations ELSE cache[k]]

\* cls._cache[key] = recommendations
cache_recommendations(key, recommendations) ==
    [k \in DOMAIN cache \cup {key} |-> IF k = key THEN recommendations ELSE cache[k]]

-----------------------------------------------------------------------------
(* app.py: CourseRecommendationAPI                                         *)

\* seq[:n]
Take(seq, n) == SubSeq(seq, 1, Min(n, Len(seq)))

\* [course for course in courses.values() if course.level == level]
LevelCourses(cs, level) == SelectSeq(cs, LAMBDA course : course.level = level)

\* the loop over the levels: up to 2 courses of each, break at 5 or more
RECURSIVE LevelMix(_, _, _)
LevelMix(cs, levels, general_recommendations) ==
    IF levels = <<>> THEN general_recommendations
    ELSE LET extended == general_recommendations \o Take(LevelCourses(cs, Head(levels)), 2)
         IN  IF Len(extended) >= 5 THEN extended
             ELSE LevelMix(cs, Tail(levels), extended)

\* _generate_general_recommendations: the level mix, filled up from the head
\* of the catalog, cut to 5
generate_general_recommendations(cs) ==
    LET mix == LevelMix(cs, <<100, 200, 300>>, <<>>)
        filled == IF Len(mix) < 5 THEN mix \o Take(cs, 5 - Len(mix)) ELSE mix
    IN  Take(filled, 5)

\* the score one search term adds to a course
TermScore(course, term) ==
    LET term_lower == Lower(term)
    IN  (IF (\E cr \in Range(course.career_relevance) : Contains(term_lower, Lower(cr)))
         THEN 3 ELSE 0)
        + (IF (\E skill \in Range(course.skills_taught) : Contains(term_lower, Lower(skill)))
           THEN 2 ELSE 0)
        + (IF \/ Contains(term_lower, Lower(course.title))
              \/ Contains(term_lower, Lower(course.description))
           THEN 1 ELSE 0)

RECURSIVE SmartScore(_, _)
SmartScore(course, search_terms) ==
    IF search_terms = <<>> THEN 0
    ELSE TermScore(course, Head(search_terms)) + SmartScore(course, Tail(search_terms))

\* _generate_smart_recommendations.  Without search terms the general list.
\* Otherwise the first course of positive score is made a key of course_scores;
\* Course is a dataclass with eq and without hash, so that raises TypeError.
\* When no course scores, course_scores stays empty and the general list is
\* returned.
generate_smart_recommendations(extracted_info) ==
    LET goals == Get(extracted_info, "career_goals", <<>>)
        subjects == Get(extracted_info, "preferred_subjects", <<>>)
        search_terms == goals \o subjects
    IN  IF search_terms = <<>>
        THEN [raised |-> FALSE, courses |-> generate_general_recommendations(courses)]
        ELSE IF \E i \in 1..Len(courses) : SmartScore(courses[i], search_terms) > 0
             THEN [raised |-> TRUE, courses |-> <<>>]
             ELSE [raised |-> FALSE, courses |-> generate_general_recommendations(courses)]

\* CourseRecommendationAPI._generate_recommendation_reason: the first career
\* goal found in a career tag, else the first subject found in the title, the
\* description or a skill, else the fallback reason
api_generate_recommendation_reason(course, extracted_info) ==
    LET goals == Get(extracted_info, "career_goals", <<>>)
        subjects == Get(extracted_info, "preferred_subjects", <<>>)
        goal_hits == {i \in 1..Len(goals) :
                        (\E cr \in Range(course.career_relevance) : Contains(Lower(goals[i]), Lower(cr)))}
        subject_hits == {i \in 1..Len(subjects) :
                           \/ Contains(Lower(subjects[i]), Lower(course.title))
                           \/ Contains(Lower(subjects[i]), Lower(course.description))
                           \/ (\E skill \in Range(course.skills_taught) : Contains(Lower(subjects[i]), Lower(skill)))}
    IN  IF goal_hits # {}
        THEN sAlignsWithYour \o goals[CHOOSE i \in goal_hits : \A j \in goal_hits : i <= j]
             \o sCareerGoal
        ELSE IF subject_hits # {}
        THEN sMatchesInterest
             \o subjects[CHOOSE i \in subject_hits : \A j \in subject_hits : i <= j]
        ELSE sRecommendedBased

\* the formatted record of one recommended course
Formatted(course, extracted_info) ==
    [course_id |-> course.course_id, title |-> course.title, credits |-> course.credits,
     reason |-> api_generate_recommendation_reason(course, extracted_info)]

\* sum(rec.get('credits', 3) for rec in recommendations)
RECURSIVE TotalCredits(_)
TotalCredits(recommendations) ==
    IF recommendations = <<>> THEN 0
    ELSE Head(recommendations).credits + TotalCredits(Tail(recommendations))

\* Python's None where a string is expected: a value no string equals
None == <<"None">>

\* bool(x) of a string or None
Truthy(x) == x # None /\ x # <<>>

\* extracted_info.get(key, [None])[0]; an empty list raises IndexError
FirstOf(extracted_info, key) ==
    LET list == Get(extracted_info, key, <<None>>)
    IN  IF list = <<>> THEN [raised |-> TRUE, value |-> None]
        ELSE [raised |-> FALSE, value |-> list[1]]

\* primary_interest: the first career goal, or else the first preferred
\* subject, or else 'general'; the subjects are looked at only when the first
\* career goal is falsy
PrimaryInterest(extracted_info) ==
    LET goal == FirstOf(extracted_info, "career_goals")
        subject == FirstOf(extracted_info, "preferred_subjects")
    IN  IF goal.raised THEN [raised |-> TRUE, key |-> None]
        ELSE IF Truthy(goal.value) THEN [raised |-> FALSE, key |-> goal.value]
        ELSE IF subject.raised THEN [raised |-> TRUE, key |-> None]
        ELSE IF Truthy(subject.value) THEN [raised |-> FALSE, key |-> subject.value]
        ELSE [raised |-> FALSE, key |-> sgeneral]

\* mutation: an answer without recommendations
NoAnswer == [recommendations |-> <<>>, extracted_info |-> EmptyDict, total_credits |-> 0]

\* what the handler returns without an AI processor and from its except clause
GeneralAnswer ==
    [recommendations |-> generate_general_recommendations(courses),
     extracted_info |-> EmptyDict, total_credits |-> 0]

\* `if cached_recommendations:` is false of None and of the empty list
IsHit(cached_recommendations) ==
    cached_recommendations.found /\ cached_recommendations.value # <<>>

\* generate_recommendations(user_message); extracted_info is what
\* ai_processor.process_student_input returned, {} when it raised
GenerateRecommendations(extracted_info) ==
    LET primary_interest == PrimaryInterest(extracted_info)
        cached_recommendations == get_cached_recommendations(primary_interest.key)
        recommendations == generate_smart_recommendations(extracted_info)
        formatted_recommendations ==
            [i \in 1..Len(recommendations.courses) |->
               Formatted(recommendations.courses[i], extracted_info)]
        repeated == IF op = "generate_recommendations" /\ args.extracted_info = extracted_info
                    THEN {"repeated"} ELSE {}
    IN  /\ op' = "generate_recommendations"
        /\ args' = [extracted_info |-> extracted_info]
        /\ ranked' = <<>>
        /\ UNCHANGED <<courses, career_goal_mapping, subject_mapping, ai_processor, calls, requests>>
        /\ IF ~ai_processor
           THEN /\ result' = GeneralAnswer
                /\ trace' = {"no_ai_processor"} \cup repeated
                /\ UNCHANGED cache
           ELSE IF primary_interest.raised
           THEN /\ result' = GeneralAnswer
                /\ trace' = {"raised"} \cup repeated
                /\ UNCHANGED cache
           ELSE IF IsHit(cached_recommendations)
           THEN /\ result' = [recommendations |-> cached_recommendations.value,
                              extracted_info |-> extracted_info,
                              total_credits |-> TotalCredits(cached_recommendations.value)]
                /\ trace' = {"cache_hit"} \cup repeated
                /\ UNCHANGED cache
           ELSE IF recommendations.raised
           THEN /\ result' = GeneralAnswer
                /\ trace' = {"scored", "raised"} \cup repeated
                /\ UNCHANGED cache
           ELSE /\ result' = [recommendations |-> formatted_recommendations,
                              extracted_info |-> extracted_info,
                              total_credits |-> TotalCredits(formatted_recommendations)]
                /\ trace' = {"scored", "cached"} \cup repeated
                /\ cache' = cache_recommendations(primary_interest.key,
                                                  formatted_recommendations)

\* CourseRecommendationCache.clear_cache()
ClearCache ==
    /\ cache' = EmptyDict
    /\ op' = "clear_cache"
    /\ args' = <<>>
    /\ result' = <<>>
    /\ ranked' = <<>>
    /\ trace' = {}
    /\ UNCHANGED <<courses, career_goal_mapping, subject_mapping, ai_processor, calls, requests>>

-----------------------------------------------------------------------------
(* services/course_cache.py: the three class methods, called directly.     *)
(* Each call is appended to calls.                                         *)

\* one entry of calls
Call(name, key, recommendations) == [op |-> name, key |-> key, recommendations |-> recommendations]

\* cls._cache[key] = recommendations; returns None
CacheRecommendations(key, recommendations) ==
    /\ cache' = cache_recommendations(key, recommendations)
    /\ calls' = Append(calls, Call("cache_recommendations", key, recommendations))
    /\ op' = "cache_recommendations"
    /\ args' = [key |-> key, recommendations |-> recommendations]
    /\ result' = <<>>
    /\ ranked' = <<>>
    /\ trace' = {}
    /\ UNCHANGED <<courses, career_goal_mapping, subject_mapping, ai_processor, requests>>

\* return cls._cache.get(key)
GetCachedRecommendations(key) ==
    /\ result' = get_cached_recommendations(key)
    /\ calls' = Append(calls, Call("get_cached_recommendations", key, <<>>))
    /\ op' = "get_cached_recommendations"
    /\ args' = [key |-> key]
    /\ ranked' = <<>>
    /\ trace' = {}
    /\ UNCHANGED <<courses, career_goal_mapping, subject_mapping, cache, ai_processor, requests>>

\* cls._cache.clear()
ClearCacheCall ==
    /\ cache' = EmptyDict
    /\ calls' = Append(calls, Call("clear_cache", <<>>, <<>>))
    /\ op' = "clear_cache"
    /\ args' = <<>>
    /\ result' = <<>>
    /\ ranked' = <<>>
    /\ trace' = {}
    /\ UNCHANGED <<courses, career_goal_mapping, subject_mapping, ai_processor, requests>>

-----------------------------------------------------------------------------
(* app.py: the two searches                                                *)

\* the condition of CourseRecommendationAPI.search_courses: the lower-cased
\* query occurs in the title, the description, the department, a skill or a
\* career tag
QueryMatches(query_lower, course) ==
    \/ Contains(query_lower, Lower(course.title))
    \/ Contains(query_lower, Lower(course.description))
    \/ Contains(query_lower, Lower(course.department))
    \/ (\E skill \in Range(course.skills_taught) : Contains(query_lower, Lower(skill)))
    \/ (\E career \in Range(course.career_relevance) : Contains(query_lower, Lower(career)))

\* CourseRecommendationAPI.search_courses(query, max_results), max_results >= 0
search_courses(query, max_results) ==
    LET query_lower == Lower(query)
        matching_courses == SelectSeq(courses, LAMBDA course : QueryMatches(query_lower, course))
    IN  Take(matching_courses, max_results)

SearchCourses(query, max_results) ==
    /\ op' = "search_courses"
    /\ args' = [query |-> query, max_results |-> max_results]
    /\ result' = search_courses(query, max_results)
    /\ ranked' = <<>>
    /\ trace' = {}
    /\ UNCHANGED <<courses, career_goal_mapping, subject_mapping, cache, ai_processor,
                   calls, requests>>

\* the fallback search of the route, run when api.selector.search_courses
\* raises AttributeError: title and description only
fallback_search(query) ==
    SelectSeq(courses, LAMBDA course : \/ Contains(Lower(query), Lower(course.title))
                                       \/ Contains(Lower(query), Lower(course.description)))

\* the route GET /api/courses/search?q=query.  An empty query is answered
\* with 400.  CourseSelector defines no search_courses, so the call on
\* api.selector raises AttributeError and the fallback search runs; the first
\* 10 courses found are returned with all their fields.
RouteSearchCourses(query) ==
    /\ op' = "route_search_courses"
    /\ args' = [query |-> query]
    /\ result' = IF query = <<>> THEN [status |-> 400, body |-> <<>>]
                 ELSE [status |-> 200, body |-> Take(fallback_search(query), 10)]
    /\ ranked' = <<>>
    /\ trace' = {}
    /\ UNCHANGED <<courses, career_goal_mapping, subject_mapping, cache, ai_processor,
                   calls, requests>>

-----------------------------------------------------------------------------
(* app.py: generate_recommendations served by several threads (app.run     *)
(* serves each request in a thread of its own).  A request runs in steps:  *)
(* the cache get, the computation, the cache put; the dict operations are  *)
(* atomic, anything may run between two steps of one request.              *)

\* one request: its position, the signals of its message, its locals, and
\* what it returned
Request(pc, extracted_info, key, formatted_recommendations, answer, path) ==
    [pc |-> pc, extracted_info |-> extracted_info, key |-> key,
     formatted_recommendations |-> formatted_recommendations, result |-> answer, path |-> path]

\* the value of `result` while the request is running
Pending == [recommendations |-> <<>>, extracted_info |-> EmptyDict, total_credits |-> 0]

\* the steps of a request leave the sequential bookkeeping alone
RequestStep(name, r) ==
    /\ op' = name
    /\ args' = [request |-> r]
    /\ result' = <<>>
    /\ ranked' = <<>>
    /\ trace' = {}
    /\ UNCHANGED <<courses, career_goal_mapping, subject_mapping, ai_processor, calls>>

\* lines 60-82: the request arrives; without AI processor, or when the
\* primary interest raises, it is answered at once with the general list
StartRequest(extracted_info) ==
    LET primary_interest == PrimaryInterest(extracted_info)
        r == Len(requests) + 1
    IN  /\ requests' = Append(requests,
              IF ~ai_processor
              THEN Request("done", extracted_info, None, <<>>, GeneralAnswer, "no_ai_processor")
              ELSE IF primary_interest.raised
              THEN Request("done", extracted_info, None, <<>>, GeneralAnswer, "raised")
              ELSE Request("get", extracted_info, primary_interest.key, <<>>, Pending, "running"))
        /\ RequestStep("start_request", r)
        /\ UNCHANGED cache

\* lines 85-91: the cache get, and the return when it hit
CacheGet(r) ==
    LET cached_recommendations == get_cached_recommendations(requests[r].key)
    IN  /\ requests[r].pc = "get"
        /\ requests' = [requests EXCEPT ![r] =
              IF IsHit(cached_recommendations)
              THEN [@ EXCEPT !.pc = "done", !.path = "cache_hit",
                             !.result = [recommendations |-> cached_recommendations.value,
                                         extracted_info |-> requests[r].extracted_info,
                                         total_credits |-> TotalCredits(cached_recommendations.value)]]
              ELSE [@ EXCEPT !.pc = "compute"]]
        /\ RequestStep("cache_get", r)
        /\ UNCHANGED cache

\* lines 94-104: the scoring and the formatting; an exception ends the request
\* with the general list
Compute(r) ==
    LET recommendations == generate_smart_recommendations(requests[r].extracted_info)
    IN  /\ requests[r].pc = "compute"
        /\ requests' = [requests EXCEPT ![r] =
              IF recommendations.raised
              THEN [@ EXCEPT !.pc = "done", !.path = "raised", !.result = GeneralAnswer]
              ELSE [@ EXCEPT !.pc = "put",
                             !.formatted_recommendations =
                                [i \in 1..Len(recommendations.courses) |->
                                   Formatted(recommendations.courses[i], requests[r].extracted_info)]]]
        /\ RequestStep("compute", r)
        /\ UNCHANGED cache

\* lines 107-113: the cache put and the return
CachePut(r) ==
    /\ requests[r].pc = "put"
    /\ cache' = cache_recommendations(requests[r].key, requests[r].formatted_recommendations)
    /\ requests' = [requests EXCEPT ![r] =
          [@ EXCEPT !.pc = "done", !.path = "cached",
                    !.result = [recommendations |-> requests[r].formatted_recommendations,
                                extracted_info |-> requests[r].extracted_info,
                                total_credits |-> TotalCredits(requests[r].formatted_recommendations)]]]
    /\ RequestStep("cache_put", r)

-----------------------------------------------------------------------------
(* services/AIProcessor.py: AIProcessor.generate_course_recommendations    *)

Digits == <<"0", "1", "2", "3", "4", "5", "6", "7", "8", "9">>

\* str(n) of an integer n >= 0
RECURSIVE Str(_)
Str(n) == IF n < 10 THEN <<Digits[n + 1]>> ELSE Str(n \div 10) \o <<Digits[(n % 10) + 1]>>

\* ', '.join(strings)
RECURSIVE JoinComma(_)
JoinComma(strings) ==
    IF strings = <<>> THEN <<>>
    ELSE IF Len(strings) = 1 THEN strings[1]
    ELSE strings[1] \o sCommaSpace \o JoinComma(Tail(strings))

\* the score of one course: 3 for every career goal that equals a career tag
\* (case ignored), 2 for every preferred subject found in the title, the
\* description or a skill
AiScore(course, career_goals, preferred_subjects) ==
    3 * Cardinality({g \in 1..Len(career_goals) :
                       Lower(career_goals[g]) \in
                          {Lower(cr) : cr \in Range(course.career_relevance)}})
    + 2 * Cardinality({s \in 1..Len(preferred_subjects) :
                         \/ Contains(Lower(preferred_subjects[s]), Lower(course.title))
                         \/ Contains(Lower(preferred_subjects[s]), Lower(course.description))
                         \/ (\E skill \in Range(course.skills_taught) :
                               Contains(Lower(preferred_subjects[s]), Lower(skill)))})

\* the dict appended for a course: it has no 'score' key, the score stands in
\* the text of the reason only
AiRecommendation(course, career_goals, preferred_subjects) ==
    [course_id |-> course.course_id, title |-> course.title, credits |-> course.credits,
     reason |-> sMatchesInterest
                \o JoinComma(IF career_goals # <<>> THEN career_goals ELSE preferred_subjects)
                \o sScoreOpen
                \o Str(AiScore(course, career_goals, preferred_subjects))
                \o sScoreClose]

\* the sort key int(x.get('score', 0)): 0 for a dict without 'score'
SortKey(recommendation) ==
    IF "score" \in DOMAIN recommendation THEN recommendation.score ELSE 0

\* recommendations.sort(key=..., reverse=True): stable, descending by the key
AiSort(recommendations) ==
    SortInto(<<>>, [i \in 1..Len(recommendations) |->
                      [recommendation |-> recommendations[i],
                       score |-> SortKey(recommendations[i])]])

\* generate_course_recommendations(student_profile, courses, career_paths,
\* max_recommendations): the courses of positive score, sorted, cut
generate_course_recommendations(student_profile, cs, max_recommendations) ==
    LET career_goals == Get(student_profile, "career_goals", <<>>)
        preferred_subjects == Get(student_profile, "preferred_subjects", <<>>)
        scoring == SelectSeq(cs, LAMBDA course :
                                AiScore(course, career_goals, preferred_subjects) > 0)
        recommendations == [i \in 1..Len(scoring) |->
                              AiRecommendation(scoring[i], career_goals, preferred_subjects)]
        sorted == AiSort(recommendations)
    IN  Take([i \in 1..Len(sorted) |-> sorted[i].recommendation], max_recommendations)

\* a call with the courses of the selector, as main.py makes it
GenerateCourseRecommendations(student_profile, max_recommendations) ==
    /\ op' = "generate_course_recommendations"
    /\ args' = [student_profile |-> student_profile, courses |-> courses,
                max_recommendations |-> max_recommendations]
    /\ result' = generate_course_recommendations(student_profile, courses, max_recommendations)
    /\ ranked' = <<>>
    /\ trace' = {}
    /\ UNCHANGED <<courses, career_goal_mapping, subject_mapping, cache, ai_processor,
                   calls, requests>>

-----------------------------------------------------------------------------
(* The catalogs and requests explored.                                     *)

CS101 == Course(sCS101, sIntroComputing, sEmpty, 3, sComputerScience, 100, <<>>, <<>>)

CS240 == Course(sCS240, sSystemsDesign, sEmpty, 4, sComputerScience, 200,
                <<>>, <<sSoftwareEngineering>>)

\* a course whose level earns no bonus: it is ranked only through a match or a fallback
CS000 == Course(sCS000, sSeminar, sEmpty, 3, sComputerScience, 0, <<>>, <<>>)

BUS100 == Course(sBUS100, sMarketing, sEmpty, 4, sBusinessDept, 100,
                 <<sBusinessAnalytics>>, <<sManagementPadded, sBlank>>)

ENG100 == Course(sENG100, sWriting, sEmpty, 3, sEnglish, 100, <<>>, <<>>)

CS410 == Course(sCS410, sAdvancedSystems, sEmpty, 3, sComputerScience, 400,
                <<>>, <<sSoftwareEngineering>>)

\* a second course under the identifier of CS240
CS240Again == Course(sCS240, sAdvancedSystems, sEmpty, 3, sComputerScience, 400,
                     <<sBusinessAnalytics>>, <<sManagementPadded>>)

\* a course without identifier
Unnamed == Course(sEmpty, sWriting, sEmpty, 3, sEnglish, 100,
                  <<sBusinessAnalytics>>, <<sManagementPadded>>)

\* the catalogs of Spec and SpecCatalog hold at most MaxCourses courses
MaxCourses == 3

Pool == {CS101, CS240, CS000, BUS100}

CatalogPool == {CS101, CS240, BUS100, ENG100, CS240Again, Unnamed}

GoalLists == {<<>>, <<sSoftwareEngineering>>}

SubjectLists == {<<>>, <<sbusiness>>, <<sComputerScience, scomputer>>}

CompletedLists == {<<>>, <<sCS000, sBUS100>>}

CreditCeilings == {3, 4, 7}

RecommendationCounts == {1, 5}

\* the requests explored: every combination at five recommendations, and at
\* one recommendation the requests of a student who completed nothing, under
\* the widest ceiling
Requests ==
    {r \in [career_goals : GoalLists, preferred_subjects : SubjectLists,
            completed_courses : CompletedLists, max_credits : CreditCeilings,
            max_recommendations : RecommendationCounts] :
       \/ r.max_recommendations = 5
       \/ r.completed_courses = <<>> /\ r.max_credits = 7}

Init ==
    /\ courses = <<>>
    /\ career_goal_mapping = EmptyDict
    /\ subject_mapping = EmptyDict
    /\ cache = EmptyDict
    /\ ai_processor = FALSE
    /\ op = "init"
    /\ args = <<>>
    /\ result = <<>>
    /\ ranked = <<>>
    /\ trace = {}
    /\ calls = <<>>
    /\ requests = <<>>

\* the selector: a catalog is loaded course by course and requests are answered
Next ==
    \/ \E course \in Pool : Len(courses) < MaxCourses /\ AddCourse(course)
    \/ \E r \in Requests :
         RecommendCourses(r.career_goals, r.preferred_subjects, r.completed_courses,
                          r.max_credits, r.max_recommendations)

Spec == Init /\ [][Next]_vars

\* the catalog alone, with duplicate and empty identifiers on offer
NextCatalog == \E course \in CatalogPool : Len(courses) < MaxCourses /\ AddCourse(course)

SpecCatalog == Init /\ [][NextCatalog]_vars

\* the catalogs of SpecApi hold at most MaxApiCourses courses
MaxApiCourses == 4

ApiPool == {CS101, BUS100, ENG100, CS410}

\* what signal extraction hands to generate_recommendations: {} when it
\* raised, else the dict of the lists extracted
InfoPool ==
    {EmptyDict,
     [career_goals |-> <<>>, preferred_subjects |-> <<>>],
     [career_goals |-> <<sSoftwareEngineering>>, preferred_subjects |-> <<>>]}

\* the API is constructed over an empty selector, with or without an AI processor
InitApi ==
    /\ courses = <<>>
    /\ career_goal_mapping = EmptyDict
    /\ subject_mapping = EmptyDict
    /\ cache = EmptyDict
    /\ ai_processor \in BOOLEAN
    /\ op = "init"
    /\ args = <<>>
    /\ result = <<>>
    /\ ranked = <<>>
    /\ trace = {}
    /\ calls = <<>>
    /\ requests = <<>>

\* the API: the catalog is loaded, requests are answered, the cache is cleared
NextApi ==
    \/ \E course \in ApiPool : Len(courses) < MaxApiCourses /\ AddCourse(course)
    \/ \E extracted_info \in InfoPool : GenerateRecommendations(extracted_info)
    \/ ClearCache

SpecApi == InitApi /\ [][NextApi]_vars

\* the queries and limits of the searches explored
Queries == {sEmpty, sbusiness, sComputerScience, sSoftwareEngineering}

ResultLimits == {0, 1, 2, 10}

\* the searches: the catalog is loaded and searched, through the API method
\* and through the route
NextSearch ==
    \/ \E course \in ApiPool : Len(courses) < MaxCourses /\ AddCourse(course)
    \/ \E query \in Queries : \E max_results \in ResultLimits :
         SearchCourses(query, max_results)
    \/ \E query \in Queries : RouteSearchCourses(query)

SpecSearch == Init /\ [][NextSearch]_vars

\* the cache alone, called directly: at most MaxCalls calls
MaxCalls == 4

CacheKeys == {sgeneral, sSoftwareEngineering}

CacheLists ==
    {<<>>,
     <<Formatted(CS101, EmptyDict)>>,
     <<Formatted(BUS100, EmptyDict), Formatted(CS101, EmptyDict)>>}

NextCache ==
    /\ Len(calls) < MaxCalls
    /\ \/ \E key \in CacheKeys : \E recommendations \in CacheLists :
            CacheRecommendations(key, recommendations)
       \/ \E key \in CacheKeys : GetCachedRecommendations(key)
       \/ ClearCacheCall

SpecCache == Init /\ [][NextCache]_vars

\* what signal extraction can hand over besides InfoPool: a goal in lower
\* case, no goal with a subject, an empty string as the first goal
SignalPool ==
    InfoPool \cup
    {[career_goals |-> <<ssoftwareengineering>>, preferred_subjects |-> <<>>],
     [career_goals |-> <<>>, preferred_subjects |-> <<sbusiness>>],
     [career_goals |-> <<sEmpty>>, preferred_subjects |-> <<sBusinessDept>>]}

\* the API as initialize_system sets it up: the whole catalog is loaded before
\* the first request is answered
NextSignals ==
    \/ \E course \in ApiPool :
         /\ op \in {"init", "add_course"}
         /\ Len(courses) < MaxApiCourses
         /\ AddCourse(course)
    \/ \E extracted_info \in SignalPool : GenerateRecommendations(extracted_info)
    \/ ClearCache

SpecSignals == InitApi /\ [][NextSignals]_vars

\* concurrent requests: at most MaxRequests of them, all with the signal
\* set of the first, over a catalog loaded before the first arrives
MaxRequests == 3

NextConcurrent ==
    \/ \E course \in ApiPool :
         /\ requests = <<>>
         /\ Len(courses) < MaxCourses
         /\ AddCourse(course)
    \/ \E extracted_info \in InfoPool :
         /\ Len(requests) < MaxRequests
         /\ IF requests = <<>> THEN TRUE ELSE extracted_info = requests[1].extracted_info
         /\ StartRequest(extracted_info)
    \/ \E r \in 1..Len(requests) : CacheGet(r)
    \/ \E r \in 1..Len(requests) : Compute(r)
    \/ \E r \in 1..Len(requests) : CachePut(r)

SpecConcurrent == InitApi /\ [][NextConcurrent]_vars

\* the ranking alone: the catalog is loaded and ranked for the goals and
\* subjects of the requests, and for a subject found in a title
NextRank ==
    \/ \E course \in Pool : Len(courses) < MaxCourses /\ AddCourse(course)
    \/ \E career_goals \in GoalLists : \E preferred_subjects \in SubjectLists \cup {<<sSystems>>} :
         RankCourses(career_goals, preferred_subjects)

SpecRank == Init /\ [][NextRank]_vars

\* a course whose only career tag is blank: it is filed under no career key
MUS100 == Course(sMUS100, sChoir, sEmpty, 3, sMusic, 100, <<>>, <<sBlank>>)

MatchPool == {CS240, BUS100, MUS100}

MatchGoalLists == {<<>>, <<sSoftwareEngineering>>, <<ssoftware>>, <<sBlank>>}

MatchSubjectLists == {<<>>, <<sbusiness>>, <<sBusinessAnalytics>>}

\* the matching alone: the catalog is loaded and ranked for goals and subjects
\* that are index keys, parts of index keys, keys of the keyword table, or blank
NextMatch ==
    \/ \E course \in MatchPool : Len(courses) < MaxCourses /\ AddCourse(course)
    \/ \E career_goals \in MatchGoalLists : \E preferred_subjects \in MatchSubjectLists :
         RankCourses(career_goals, preferred_subjects)

SpecMatch == Init /\ [][NextMatch]_vars

\* a course without level bonus that only the second fallback reaches: its
\* title, not its department, contains the subject 'Systems'
GEN000 == Course(sGEN000, sSystemsDesign, sEmpty, 3, sgeneral, 0, <<>>, <<>>)

WidenPool == {CS240, CS000, BUS100, GEN000}

WidenSubjectLists == {<<>>, <<sComputerScience, scomputer>>, <<sSystems, sComputerScience>>}

WidenCeilings == {3, 7}

WidenCounts == {0, 1, 5}

\* the requests of a student who completed nothing
WidenRequests ==
    [career_goals : GoalLists, preferred_subjects : WidenSubjectLists,
     completed_courses : {<<>>}, max_credits : WidenCeilings,
     max_recommendations : WidenCounts]

\* the selector over catalogs that reach both fallbacks, asked for no, one
\* and five recommendations
NextWiden ==
    \/ \E course \in WidenPool : Len(courses) < MaxCourses /\ AddCourse(course)
    \/ \E r \in WidenRequests :
         RecommendCourses(r.career_goals, r.preferred_subjects, r.completed_courses,
                          r.max_credits, r.max_recommendations)

SpecWiden == Init /\ [][NextWiden]_vars

\* signal sets that share the first career goal and differ in the rest
SharedPool ==
    {[career_goals |-> <<sSoftwareEngineering>>, preferred_subjects |-> <<>>],
     [career_goals |-> <<sSoftwareEngineering>>, preferred_subjects |-> <<sbusiness>>],
     [career_goals |-> <<sSoftwareEngineering, ssoftware>>, preferred_subjects |-> <<>>]}

\* the API over a catalog loaded before the first request, answering signal
\* sets of one primary interest in any order
NextShared ==
    \/ \E course \in ApiPool :
         /\ op \in {"init", "add_course"}
         /\ Len(courses) < MaxApiCourses
         /\ AddCourse(course)
    \/ \E extracted_info \in SharedPool : GenerateRecommendations(extracted_info)
    \/ ClearCache

SpecShared == InitApi /\ [][NextShared]_vars

AiPool == {CS101, CS240, BUS100, CS410}

\* student profiles: a goal that is a career tag, in either case, with and
\* without a subject found in titles or skills
AiProfiles ==
    {[career_goals |-> <<>>, preferred_subjects |-> <<>>],
     [career_goals |-> <<sSoftwareEngineering>>, preferred_subjects |-> <<sbusiness>>],
     [career_goals |-> <<ssoftwareengineering>>, preferred_subjects |-> <<sSystems>>],
     [career_goals |-> <<>>, preferred_subjects |-> <<sSystems, sbusiness>>]}

AiCounts == {0, 1, 2, 5}

\* the recommendations of the AI processor over the courses of the selector
NextAi ==
    \/ \E course \in AiPool : Len(courses) < MaxCourses /\ AddCourse(course)
    \/ \E student_profile \in AiProfiles : \E max_recommendations \in AiCounts :
         GenerateCourseRecommendations(student_profile, max_recommendations)

SpecAi == Init /\ [][NextAi]_vars

-----------------------------------------------------------------------------
(* Properties of recommend_courses (checked under Spec).                   *)

Recommended == op = "recommend_courses"

\* the identifiers of a recommendation list, in order
IdsOf(recommendations) == [i \in 1..Len(recommendations) |-> recommendations[i].course_id]

\* the sum of the credits of a recommendation list
RECURSIVE CreditsOf(_)
CreditsOf(recommendations) ==
    IF recommendations = <<>> THEN 0
    ELSE Head(recommendations).credits + CreditsOf(Tail(recommendations))

\* C1: the credits of the list recommend_courses returns sum to at most
\* max_credits, whatever the catalog, the signals, the completed courses and
\* the two limits of the request.
C1_CreditCeiling == Recommended => CreditsOf(result) <= args.max_credits

\* C1's case: the course ranked first was skipped for its credits, and the list
\* went on to take later ones, up to the ceiling exactly
C1_Witness ==
    /\ Recommended
    /\ ranked # <<>>
    /\ CourseById(courses, ranked[1].course_id).credits > args.max_credits
    /\ result # <<>>
    /\ Len(result) < args.max_recommendations
    /\ CreditsOf(result) = args.max_credits

ScoreOf(id) == ranked[CHOOSE i \in 1..Len(ranked) : ranked[i].course_id = id].score

\* C3: any two courses of equal score stand in the returned list in the order
\* in which add_course accepted them, fallback additions included.
C3_TiesInCatalogOrder ==
    Recommended =>
      \A i \in 1..Len(result) : \A j \in 1..Len(result) :
         (/\ i < j
          /\ result[i].course_id # result[j].course_id
          /\ ScoreOf(result[i].course_id) = ScoreOf(result[j].course_id))
         => Position(courses, result[i].course_id) < Position(courses, result[j].course_id)

\* the courses whose department contains "business"
BusinessCourses ==
    {i \in 1..Len(courses) : Contains(sbusiness, LowerChars(courses[i].department))}

\* C7, as the code has it: with the preferred subject "business", the list is
\* not empty when some course whose department contains "business" is not
\* completed and has credits within max_credits.
C7_BusinessFallback ==
    (/\ Recommended
     /\ args.preferred_subjects = <<sbusiness>>
     /\ \E i \in BusinessCourses :
          /\ courses[i].course_id \notin Range(args.completed_courses)
          /\ courses[i].credits <= args.max_credits)
    => result # <<>>

\* C7's case: the business course fills the ceiling exactly and is the list
C7_Witness ==
    /\ Recommended
    /\ args.preferred_subjects = <<sbusiness>>
    /\ args.career_goals = <<>>
    /\ BusinessCourses # {}
    /\ IdsOf(result) = <<sBUS100>>
    /\ CreditsOf(result) = args.max_credits

\* C7 as stated: with the preferred subject "business" and a course whose
\* department contains "business" in the catalog, the list is not empty.
C7_AsStated ==
    (/\ Recommended
     /\ args.preferred_subjects = <<sbusiness>>
     /\ BusinessCourses # {})
    => result # <<>>

\* the scenario of C8: CS101 then CS240 in the catalog, the one career goal
\* "Software Engineering", and room for two recommendations
C8_Scenario ==
    /\ Recommended
    /\ courses = <<CS101, CS240>>
    /\ args.career_goals = <<sSoftwareEngineering>>
    /\ args.preferred_subjects = <<>>
    /\ args.max_recommendations >= 2

\* C8: in the scenario CS240 is ranked above CS101, both are returned when
\* max_credits >= 7, and the reason given for CS240 is exactly
\* "Aligns with your Software Engineering career goal".
C8_ConcreteScenario ==
    C8_Scenario =>
      /\ [i \in 1..Len(ranked) |-> ranked[i].course_id] = <<sCS240, sCS101>>
      /\ args.max_credits >= 7 => IdsOf(result) = <<sCS240, sCS101>>
      /\ \A i \in 1..Len(result) :
            result[i].course_id = sCS240
            => result[i].reason = sAlignsWithYour \o sSoftwareEngineering \o sCareerGoal

\* C8's case: the scenario under a ceiling of 7 credits, both courses returned
C8_Witness ==
    /\ C8_Scenario
    /\ args.max_credits = 7
    /\ IdsOf(result) = <<sCS240, sCS101>>

\* C15 as stated: over a catalog that is not empty recommend_courses returns
\* at least one course, whatever the signals, the completed courses and the two
\* limits.
C15_EmptyOnlyForEmptyCatalog == (Recommended /\ courses # <<>>) => result # <<>>

\* the courses a request can be given: not completed, of positive level, with
\* credits within max_credits
Available ==
    {i \in 1..Len(courses) :
       /\ courses[i].course_id \notin Range(args.completed_courses)
       /\ courses[i].level > 0
       /\ courses[i].credits <= args.max_credits}

\* C15, as the code has it: recommend_courses returns at least one course
\* whenever the catalog holds a course that is not completed, has a positive
\* level and has credits within max_credits.
C15_NonEmptyWhenAvailable == (Recommended /\ Available # {}) => result # <<>>

\* C15's case: no signals, three courses in the catalog of which one is
\* available, and that one is the list
C15_Witness ==
    /\ Recommended
    /\ args.career_goals = <<>>
    /\ args.preferred_subjects = <<>>
    /\ Len(courses) = 3
    /\ Cardinality(Available) = 1
    /\ IdsOf(result) = <<courses[CHOOSE i \in Available : TRUE].course_id>>

-----------------------------------------------------------------------------
(* Properties of generate_recommendations (checked under SpecApi).         *)

Generated == op = "generate_recommendations"

\* C4: two calls of generate_recommendations in a row with the same extracted
\* signals, the catalog unchanged between them, return the same
\* recommendations and the same total_credits.
C4_SameAnswerTwice ==
    [][(/\ Generated
        /\ op' = "generate_recommendations"
        /\ args' = args
        /\ courses' = courses)
       => /\ result'.recommendations = result.recommendations
          /\ result'.total_credits = result.total_credits]_vars

\* C4's case: a call repeated the signals of the call before it and was
\* answered with a cached list of several courses
C4_Witness ==
    /\ Generated
    /\ "repeated" \in trace
    /\ "cache_hit" \in trace
    /\ args.extracted_info # EmptyDict
    /\ Len(result.recommendations) >= 2
    /\ result.total_credits > 0

\* C5: with an AI processor, a call that follows a call with the same signal
\* set (no clear_cache between them) is answered from the cache and does not
\* score again, whatever list the first call produced.
C5_SecondCallFromCache ==
    [][(/\ ai_processor
        /\ Generated
        /\ op' = "generate_recommendations"
        /\ args' = args)
       => "cache_hit" \in trace' /\ "scored" \notin trace']_vars

\* no career goal and no preferred subject
EmptySignals(extracted_info) ==
    /\ Get(extracted_info, "career_goals", <<>>) = <<>>
    /\ Get(extracted_info, "preferred_subjects", <<>>) = <<>>

LevelsOfCatalog == {courses[i].level : i \in 1..Len(courses)}

LevelsOfList(recommendations) ==
    {CourseById(courses, recommendations[i].course_id).level :
       i \in 1..Len(recommendations)}

\* C6: over a non-empty catalog a request with empty signals, answered from
\* the catalog as it stands (not from the cache), returns a non-empty list, of
\* at least two levels when the catalog has courses of at least two levels.
C6_GeneralListLevels ==
    (/\ Generated
     /\ EmptySignals(args.extracted_info)
     /\ "cache_hit" \notin trace
     /\ courses # <<>>)
    => /\ result.recommendations # <<>>
       /\ Cardinality(LevelsOfCatalog) >= 2
          => Cardinality(LevelsOfList(result.recommendations)) >= 2

-----------------------------------------------------------------------------
(* Properties of add_course (checked under SpecCatalog).                   *)

\* C9: add_course appends the course when its identifier is non-empty and not
\* yet a key; otherwise the courses and both indexes stay as they are.  Either
\* way the courses held before keep their place and value, so an identifier
\* maps to the first course added under it.
C9_AddCourseContract ==
    [][op' = "add_course" =>
         LET course == args'.course
         IN  /\ IF course.course_id # <<>> /\ course.course_id \notin CourseIds(courses)
                THEN courses' = Append(courses, course)
                ELSE /\ courses' = courses
                     /\ career_goal_mapping' = career_goal_mapping
                     /\ subject_mapping' = subject_mapping
             /\ \A i \in 1..Len(courses) : courses'[i] = courses[i]]_vars

\* C9's case: a second course was offered under the identifier of CS240 and
\* the catalog still holds the first
C9_Witness ==
    /\ op = "add_course"
    /\ args.course = CS240Again
    /\ sCS240 \in CourseIds(courses)
    /\ CourseById(courses, sCS240) = CS240
    /\ Len(courses) >= 2

\* a key as add_course files it: not empty, lower-cased, trimmed
NormalizedKey(k) == k # <<>> /\ LowerChars(k) = k /\ StripChars(k) = k

\* one index against the catalog; field names the tags the index is built from
IndexSound(mapping, field) ==
    /\ \A k \in DOMAIN mapping :
         /\ NormalizedKey(k)
         /\ mapping[k] \subseteq CourseIds(courses)
         /\ \A i \in 1..Len(courses) :
              courses[i].course_id \in mapping[k]
              <=> \E t \in 1..Len(courses[i][field]) :
                     StripChars(LowerChars(courses[i][field][t])) = k
    /\ \A i \in 1..Len(courses) : \A t \in 1..Len(courses[i][field]) :
         LET k == StripChars(LowerChars(courses[i][field][t]))
         IN  k # <<>> => k \in DOMAIN mapping

\* C10: every key of the career index and of the skill index is non-empty,
\* lower-cased and trimmed, holds identifiers of the catalog only, and holds an
\* identifier exactly when that course has a tag normalizing to the key.
C10_IndexInvariant ==
    /\ IndexSound(career_goal_mapping, "career_relevance")
    /\ IndexSound(subject_mapping, "skills_taught")

\* C10's case: the padded tag " Management " of two courses is filed under
\* "management", and the blank tag under no key
C10_Witness ==
    /\ StripChars(LowerChars(sManagementPadded)) \in DOMAIN career_goal_mapping
    /\ Cardinality(career_goal_mapping[StripChars(LowerChars(sManagementPadded))]) = 2
    /\ sBUS100 \in CourseIds(courses)
    /\ Cardinality(DOMAIN career_goal_mapping) = 1
    /\ DOMAIN subject_mapping # {}

-----------------------------------------------------------------------------
(* Properties of the searches (checked under SpecSearch).                  *)

\* the query occurs in the text, letter case aside
InIgnoringCase(query, text) == Contains(LowerChars(query), LowerChars(text))

\* the courses a search for the query is to find, in catalog order
Matching(query) ==
    SelectSeq(courses, LAMBDA c :
        \/ InIgnoringCase(query, c.title)
        \/ InIgnoringCase(query, c.description)
        \/ InIgnoringCase(query, c.department)
        \/ \E t \in 1..Len(c.skills_taught) : InIgnoringCase(query, c.skills_taught[t])
        \/ \E t \in 1..Len(c.career_relevance) : InIgnoringCase(query, c.career_relevance[t]))

\* the first n entries of a list
FirstN(seq, n) == [i \in 1..(IF n < Len(seq) THEN n ELSE Len(seq)) |-> seq[i]]

C11_MethodAlone ==
    op = "search_courses" => result = FirstN(Matching(args.query), args.max_results)

-----------------------------------------------------------------------------
(* Properties of the cache called directly (checked under SpecCache).      *)

\* the calls of a log that follow its last clear_cache
SinceClear(log) ==
    LET clears == {i \in 1..Len(log) : log[i].op = "clear_cache"}
        last == IF clears = {} THEN 0 ELSE CHOOSE i \in clears : \A j \in clears : j <= i
    IN  SubSeq(log, last + 1, Len(log))

\* the lists put under key k since the last clear_cache, oldest first
PutsOf(log, k) ==
    SelectSeq(SinceClear(log), LAMBDA c : c.op = "cache_recommendations" /\ c.key = k)

\* what a get of key k is to return after the calls of the log
LastPut(log, k) ==
    LET puts == PutsOf(log, k)
    IN  IF puts = <<>> THEN [found |-> FALSE, value |-> <<>>]
        ELSE [found |-> TRUE, value |-> puts[Len(puts)].recommendations]

\* C12: after any sequence of cache_recommendations, get_cached_recommendations
\* and clear_cache calls, a get of key k returns the list of the most recent
\* put of k since the last clear, and a miss when there was none; this for the
\* get just made and for a get of any key made next, so that a get changes
\* nothing and a put changes its own key only.
C12_CacheContract ==
    /\ op = "get_cached_recommendations"
       => result = LastPut(SubSeq(calls, 1, Len(calls) - 1), args.key)
    /\ \A k \in CacheKeys : get_cached_recommendations(k) = LastPut(calls, k)

\* C12's case: a key was put twice with different lists since a clear, the
\* other key once, and the get just made returned the later list
C12_Witness ==
    /\ op = "get_cached_recommendations"
    /\ Len(calls) = 4
    /\ Len(PutsOf(calls, args.key)) = 2
    /\ PutsOf(calls, args.key)[1].recommendations # PutsOf(calls, args.key)[2].recommendations
    /\ \E k \in CacheKeys : k # args.key /\ Len(PutsOf(calls, k)) = 1
    /\ result = [found |-> TRUE, value |-> PutsOf(calls, args.key)[2].recommendations]

-----------------------------------------------------------------------------
(* Properties of generate_recommendations over every kind of signal set    *)
(* (checked under SpecSignals).                                            *)

\* the key the request is to be cached under: the lower-cased first non-empty
\* career goal, else the lower-cased first preferred subject, else "general"
NormalizedInterest(extracted_info) ==
    LET goals == SelectSeq(Get(extracted_info, "career_goals", <<>>), LAMBDA g : g # <<>>)
        subjects == SelectSeq(Get(extracted_info, "preferred_subjects", <<>>), LAMBDA s : s # <<>>)
    IN  IF goals # <<>> THEN LowerChars(goals[1])
        ELSE IF subjects # <<>> THEN LowerChars(subjects[1])
        ELSE sgeneral

ExtractionFailed == Generated /\ (~ai_processor \/ args.extracted_info = EmptyDict)

\* C14: when signal extraction is unavailable or raises, the call returns
\* its result dict (nothing is raised to the caller) and the recommendations
\* are the general recommendations of the catalog, course by course; over
\* the empty catalog the list is empty.
C14_ExtractionFailure ==
    ExtractionFailed
    => /\ DOMAIN result = {"recommendations", "extracted_info", "total_credits"}
       /\ IdsOf(result.recommendations) = IdsOf(generate_general_recommendations(courses))
       /\ courses = <<>> => result.recommendations = <<>>

\* C14's case: extraction raised, over a catalog of two levels, and the
\* answer came from the cache entry an earlier failed extraction had left
C14_Witness ==
    /\ ExtractionFailed
    /\ ai_processor
    /\ "cache_hit" \in trace
    /\ Cardinality(LevelsOfCatalog) >= 2
    /\ Len(result.recommendations) = 5

\* C14's other case: no AI processor, over a catalog that is not empty
C14_WitnessNoProcessor ==
    /\ ExtractionFailed
    /\ ~ai_processor
    /\ courses # <<>>
    /\ result.recommendations # <<>>

\* C16: in every result of generate_recommendations (cache hit, cache miss,
\* without AI processor, exception path) each recommendation is a record of
\* course_id, title, credits and reason, and total_credits is the sum of the
\* credits of the recommendations returned.
C16_ResultShape ==
    Generated
    => /\ \A i \in 1..Len(result.recommendations) :
            DOMAIN result.recommendations[i] = {"course_id", "title", "credits", "reason"}
       /\ result.total_credits = CreditsOf(result.recommendations)

\* C16 on the two paths that format: a cache miss that stores, and a cache hit
C16_FormattedPaths ==
    (Generated /\ ("cached" \in trace \/ "cache_hit" \in trace)) => C16_ResultShape

-----------------------------------------------------------------------------
(* Properties of concurrent requests (checked under SpecConcurrent).       *)

AllDone == requests # <<>> /\ \A r \in 1..Len(requests) : requests[r].pc = "done"

\* what one request, run alone over the empty cache, leaves in the cache
SequentialCache(extracted_info) ==
    LET primary_interest == PrimaryInterest(extracted_info)
        recommendations == generate_smart_recommendations(extracted_info)
    IN  IF ~ai_processor \/ primary_interest.raised \/ recommendations.raised
        THEN EmptyDict
        ELSE [k \in {primary_interest.key} |->
                [i \in 1..Len(recommendations.courses) |->
                   Formatted(recommendations.courses[i], extracted_info)]]

\* C17: under every interleaving of the get, compute and put steps of
\* requests with one signal set over an unchanged catalog, the requests that
\* have finished returned the same list, and once all have finished the cache
\* holds what one request run alone would have stored.
C17_ConcurrentConvergence ==
    /\ \A r \in 1..Len(requests) : \A s \in 1..Len(requests) :
         (requests[r].pc = "done" /\ requests[s].pc = "done")
         => IdsOf(requests[r].result.recommendations) = IdsOf(requests[s].result.recommendations)
    /\ AllDone => cache = SequentialCache(requests[1].extracted_info)

\* C17's case: two requests both missed and both computed and stored (the
\* duplicate computation), a third was answered from the cache, and the list
\* is not empty
C17_Witness ==
    /\ AllDone
    /\ Cardinality({r \in 1..Len(requests) : requests[r].path = "cached"}) >= 2
    /\ \E r \in 1..Len(requests) : requests[r].path = "cache_hit"
    /\ requests[1].result.recommendations # <<>>

\* the career-goal list is there and empty, and a preferred subject is given
PartialSignals(extracted_info) ==
    /\ "career_goals" \in DOMAIN extracted_info
    /\ extracted_info.career_goals = <<>>
    /\ Get(extracted_info, "preferred_subjects", <<>>) # <<>>

\* C18: with an AI processor, a request whose career-goal list is empty and
\* that names a preferred subject does not end in the exception path: it is
\* answered with its own signals, from the cache or by scoring, and the cache
\* then holds an entry under its first preferred subject (letter case aside).
C18_PartialSignals ==
    (Generated /\ ai_processor /\ PartialSignals(args.extracted_info))
    => /\ "raised" \notin trace
       /\ result.extracted_info = args.extracted_info
       /\ \E k \in DOMAIN cache :
            LowerChars(k) = LowerChars(args.extracted_info.preferred_subjects[1])

-----------------------------------------------------------------------------
(* Properties of rank_courses_by_relevance (checked under SpecRank).       *)

Ranked == op = "rank_courses_by_relevance"

\* C19: every course of the list rank_courses_by_relevance returns is in the
\* career-match set or in the subject-match set; a course that matches no
\* goal and no subject is left out.
C19_OnlyMatchedCoursesRanked ==
    Ranked => \A i \in 1..Len(result) :
                result[i].course.course_id \in
                  match_career_goals(args.career_goals)
                  \cup match_preferred_subjects(args.preferred_subjects)

\* some preferred subject occurs in the title or the description of the course
NamesSubject(course, preferred_subjects) ==
    \E s \in 1..Len(preferred_subjects) :
       \/ InIgnoringCase(preferred_subjects[s], course.title)
       \/ InIgnoringCase(preferred_subjects[s], course.description)

\* the score of the claim, times 200: 5 for a career match, 3 for a subject
\* match, 2 for a subject in the title or description, and the level bonus
\* min(level / 100, 4) / 2
ClaimedScore(course, career_goals, preferred_subjects) ==
    (IF course.course_id \in match_career_goals(career_goals) THEN 1000 ELSE 0)
    + (IF course.course_id \in match_preferred_subjects(preferred_subjects) THEN 600 ELSE 0)
    + (IF NamesSubject(course, preferred_subjects) THEN 400 ELSE 0)
    + (IF course.level < 400 THEN course.level ELSE 400)

\* C20: the score rank_courses_by_relevance gives a course is not negative
\* and is the sum of 5 for a career match, 3 for a subject match, 2 when the
\* title or description contains a preferred subject, and a level bonus of at
\* most 2, each term counted once.
C20_ScoreFormula ==
    Ranked => \A i \in 1..Len(result) :
                /\ result[i].score >= 0
                /\ result[i].score =
                     ClaimedScore(result[i].course, args.career_goals, args.preferred_subjects)

\* C20 without the term for a subject in the title or description
C20_ScoreWithoutTextTerm ==
    Ranked => \A i \in 1..Len(result) :
                /\ result[i].score >= 0
                /\ result[i].score =
                     ClaimedScore(result[i].course, args.career_goals, args.preferred_subjects)
                     - (IF NamesSubject(result[i].course, args.preferred_subjects) THEN 400 ELSE 0)

-----------------------------------------------------------------------------
(* C21: the match sets as unions of the widening passes                    *)

\* the course is filed under an index key equal to the term, containing it,
\* or contained in it
FiledUnder(id, t, mapping) ==
    \E k \in DOMAIN mapping :
       /\ id \in mapping[k]
       /\ (t = k \/ Contains(t, k) \/ Contains(k, t))

\* the term is a key of the keyword table and one of its keywords occurs in
\* the lower-cased title, department or description of the course
KeywordExpanded(id, t) ==
    /\ t \in DOMAIN subject_keywords
    /\ \E i \in 1..Len(courses) :
          /\ courses[i].course_id = id
          /\ \/ KeywordIn(t, Lower(courses[i].title))
             \/ KeywordIn(t, Lower(courses[i].department))
             \/ KeywordIn(t, Lower(courses[i].description))

CareerUnion(career_goals) ==
    {id \in CourseIds(courses) :
       \E g \in 1..Len(career_goals) :
          FiledUnder(id, Strip(Lower(career_goals[g])), career_goal_mapping)}

SubjectUnion(preferred_subjects) ==
    {id \in CourseIds(courses) :
       \E s \in 1..Len(preferred_subjects) :
          \/ FiledUnder(id, Strip(Lower(preferred_subjects[s])), subject_mapping)
          \/ KeywordExpanded(id, Strip(Lower(preferred_subjects[s])))}

\* C21: the set of courses matched for the career goals, and the set matched
\* for the preferred subjects, is exactly the union of the widening passes: a
\* course is matched if and only if for some lower-cased, trimmed term it is
\* filed under an index key equal to the term, containing it or contained in
\* it, or (subjects only) the term is a key of the keyword table and one of
\* its keywords occurs in the lower-cased title, department or description.
C21_MatchUnion ==
    Ranked =>
       /\ match_career_goals(args.career_goals) = CareerUnion(args.career_goals)
       /\ match_preferred_subjects(args.preferred_subjects) = SubjectUnion(args.preferred_subjects)

\* C21 for the preferred subjects alone
C21_SubjectUnion ==
    Ranked =>
       match_preferred_subjects(args.preferred_subjects) = SubjectUnion(args.preferred_subjects)

\* C21 for the career goals that are not blank
C21_CareerUnionOfNamedGoals ==
    (Ranked /\ \A g \in 1..Len(args.career_goals) : Strip(Lower(args.career_goals[g])) # sEmpty) =>
       match_career_goals(args.career_goals) = CareerUnion(args.career_goals)

\* a course filed under no career key is matched for a blank career goal
C21_BlankGoalMatchesUnfiled ==
    /\ Ranked
    /\ \E i \in 1..Len(result) :
          /\ result[i].score >= 1000
          /\ result[i].course.course_id \in match_career_goals(args.career_goals)
          /\ \A k \in DOMAIN career_goal_mapping :
                result[i].course.course_id \notin career_goal_mapping[k]

-----------------------------------------------------------------------------
(* C22: the returned list is ordered by score                              *)

\* the courses rank_courses_by_relevance ranked for the request, before the
\* fallback strategy
PrimaryIds ==
    LET rk == rank_courses_by_relevance(Eligible(courses, args.completed_courses),
                                        args.career_goals, args.preferred_subjects)
    IN  {rk[i].course.course_id : i \in 1..Len(rk)}

\* C22: the list recommend_courses returns is ordered by non-increasing
\* score, the courses added by the fallback strategy carrying the score 1.0
\* (department fallback) or 0.5 (introductory fallback).
C22_OrderedByScore ==
    Recommended =>
       /\ \A i \in 1..Len(result) : \A j \in 1..Len(result) :
             i < j => ScoreOf(result[i].course_id) >= ScoreOf(result[j].course_id)
       /\ \A k \in 1..Len(ranked) :
             ranked[k].course_id \notin PrimaryIds => ranked[k].score \in {200, 100}

\* a ranked course is returned before a fallback course of lower score, and
\* the ranked list holds a course of each fallback
C22_WitnessBothFallbacks ==
    /\ Recommended
    /\ \E i \in 1..Len(result) : \E j \in 1..Len(result) :
          /\ i < j
          /\ result[i].course_id \in PrimaryIds
          /\ result[j].course_id \notin PrimaryIds
          /\ ScoreOf(result[i].course_id) > ScoreOf(result[j].course_id)
    /\ \E k \in 1..Len(ranked) : ranked[k].course_id \notin PrimaryIds /\ ranked[k].score = 200
    /\ \E k \in 1..Len(ranked) : ranked[k].course_id \notin PrimaryIds /\ ranked[k].score = 100

-----------------------------------------------------------------------------
(* C23: the assembly skips a course that does not fit and goes on          *)

\* the ranked courses that are not in the returned list
LeftOut == {ranked[k].course_id : k \in 1..Len(ranked)} \ Range(IdsOf(result))

\* C23: when the list recommend_courses returns has fewer than
\* max_recommendations entries, no ranked course that was left out has
\* credits <= max_credits minus the credits of the returned list: a course
\* that does not fit is skipped and the loop goes on to the courses after it.
C23_SkipsNotStops ==
    (Recommended /\ Len(result) < args.max_recommendations) =>
       \A id \in LeftOut :
          CourseById(courses, id).credits > args.max_credits - CreditsOf(result)

\* a list shorter than asked for, with a ranked course left out before a
\* course that was taken
C23_WitnessSkipThenTake ==
    /\ Recommended
    /\ Len(result) < args.max_recommendations
    /\ \E k \in 1..Len(ranked) : \E l \in 1..Len(ranked) :
          /\ k < l
          /\ ranked[k].course_id \in LeftOut
          /\ ranked[l].course_id \in Range(IdsOf(result))

-----------------------------------------------------------------------------
(* C24: the length of the returned list                                    *)

\* the number of ranked courses the assembly takes when it is never stopped
\* by the count
GreedyFits ==
    Len(AssembleFrom(RankedCourses(args.career_goals, args.preferred_subjects,
                                   args.completed_courses, args.max_recommendations),
                     args.career_goals, args.preferred_subjects, args.max_credits,
                     Len(ranked) + 1))

\* C24: for every max_recommendations >= 0 the list recommend_courses returns
\* has at most max_recommendations entries, and exactly max_recommendations
\* whenever at least that many ranked courses fit greedily.
C24_LengthBound ==
    Recommended =>
       /\ Len(result) <= args.max_recommendations
       /\ (GreedyFits >= args.max_recommendations => Len(result) = args.max_recommendations)

\* C24 for requests of at least one recommendation
C24_LengthBoundFromOne ==
    (Recommended /\ args.max_recommendations >= 1) =>
       /\ Len(result) <= args.max_recommendations
       /\ (GreedyFits >= args.max_recommendations => Len(result) = args.max_recommendations)

\* a request for no recommendation is answered with one course
C24_OneForNone ==
    Recommended /\ args.max_recommendations = 0 /\ Len(result) = 1

-----------------------------------------------------------------------------
(* C25: the fallback and duplicates                                        *)

\* no value stands at two positions of the list
NoRepeats(ids) == \A i \in 1..Len(ids) : \A j \in 1..Len(ids) : ids[i] = ids[j] => i = j

\* C25: the fallback adds a course only if it is not yet present: no course
\* id occurs twice in the ranked list after the fallback, nor in the list
\* recommend_courses returns, however many preferred subjects match the
\* department or title of one course.
C25_FallbackAddsOnce ==
    Recommended =>
       /\ NoRepeats([k \in 1..Len(ranked) |-> ranked[k].course_id])
       /\ NoRepeats(IdsOf(result))

\* C25 for requests with at most one preferred subject
C25_OnceForOneSubject ==
    (Recommended /\ Len(args.preferred_subjects) <= 1) =>
       /\ NoRepeats([k \in 1..Len(ranked) |-> ranked[k].course_id])
       /\ NoRepeats(IdsOf(result))

\* a fallback course is returned twice
C25_ReturnedTwice ==
    /\ Recommended
    /\ \E i \in 1..Len(result) : \E j \in 1..Len(result) :
          i < j /\ result[i].course_id = result[j].course_id /\ result[i].course_id \notin PrimaryIds

-----------------------------------------------------------------------------
(* C26: the general recommendations                                        *)

\* the call was answered with the general recommendations as they are
GeneralAnswered == Generated /\ (trace \cap {"no_ai_processor", "raised"}) # {}

\* the first two courses of each of the levels 100, 200 and 300, in catalog
\* order, cut to 5
FirstTwoOfEachLevel ==
    Take(Take(LevelCourses(courses, 100), 2) \o Take(LevelCourses(courses, 200), 2)
         \o Take(LevelCourses(courses, 300), 2), 5)

\* C26: the general list has at most 5 courses: at most 2 of each of the
\* levels 100, 200 and 300 in catalog order, then courses that were not yet
\* chosen; no course stands in it twice.
C26_GeneralList ==
    GeneralAnswered =>
       LET general == result.recommendations
           mix == FirstTwoOfEachLevel
       IN  /\ Len(general) <= 5
           /\ Len(general) >= Len(mix)
           /\ \A i \in 1..Len(general) :
                 IF i <= Len(mix) THEN general[i] = mix[i]
                 ELSE general[i] \notin Range(mix)
           /\ NoRepeats(IdsOf(general))

\* C26 without the backfill: at most 5 courses, the first of them the level mix
C26_LevelMixFirst ==
    GeneralAnswered =>
       LET general == result.recommendations
           mix == FirstTwoOfEachLevel
       IN  /\ Len(general) <= 5
           /\ Len(general) >= Len(mix)
           /\ \A i \in 1..Len(mix) : general[i] = mix[i]

\* the backfill repeats a course of the level mix
C26_BackfillRepeats ==
    /\ GeneralAnswered
    /\ \E i \in 1..Len(result.recommendations) : \E j \in 1..Len(result.recommendations) :
          /\ i <= Len(FirstTwoOfEachLevel)
          /\ j > Len(FirstTwoOfEachLevel)
          /\ result.recommendations[i] = result.recommendations[j]

-----------------------------------------------------------------------------
(* C27: the reason of a recommendation                                     *)

\* the reasons of one clause the claim allows for a course: the career
\* clause when a goal matches a career tag, otherwise a subject clause when a
\* subject matches, otherwise the level clause
OneClauseReasons(course, career_goals, preferred_subjects) ==
    LET career == CareerReasons(course, career_goals)
        subject == BusinessReasons(course, preferred_subjects)
                   \o SubjectReasons(course, preferred_subjects)
    IN  IF career # <<>> THEN {career[1] \o sDot}
        ELSE IF subject # <<>> THEN {subject[i] \o sDot : i \in 1..Len(subject)}
        ELSE {LevelReason(course) \o sDot}

\* C27: the reason of a recommended course is exactly one clause: the career
\* clause when a career goal matches a career tag of the course, otherwise a
\* subject clause when a preferred subject matches, otherwise the level
\* clause (introductory below level 200, intermediate below 300, advanced
\* otherwise), which stands only when nothing else matched.
C27_OneReasonClause ==
    Recommended =>
       \A i \in 1..Len(result) :
          result[i].reason \in OneClauseReasons(CourseById(courses, result[i].course_id),
                                                args.career_goals, args.preferred_subjects)

\* the level clause is the reason exactly when no other clause applies
C27_LevelClauseLast ==
    Recommended =>
       \A i \in 1..Len(result) :
          LET course == CourseById(courses, result[i].course_id)
          IN  (result[i].reason = LevelReason(course) \o sDot)
              <=> (BusinessReasons(course, args.preferred_subjects)
                   \o CareerReasons(course, args.career_goals)
                   \o SubjectReasons(course, args.preferred_subjects) = <<>>)

\* a reason of two clauses: the career clause and a subject clause
C27_TwoClauses ==
    /\ Recommended
    /\ \E i \in 1..Len(result) :
          LET course == CourseById(courses, result[i].course_id)
          IN  /\ CareerReasons(course, args.career_goals) # <<>>
              /\ SubjectReasons(course, args.preferred_subjects) # <<>>
              /\ result[i].reason =
                    CareerReasons(course, args.career_goals)[1] \o sAnd
                    \o SubjectReasons(course, args.preferred_subjects)[1] \o sDot

-----------------------------------------------------------------------------
(* C28: cache entries never expire                                         *)

\* the keys under which the cache holds a non-empty list
StoredKeys == {k \in DOMAIN cache : cache[k] # <<>>}

\* the next step is a request that reaches the cache lookup with the key
RequestsKey(key) ==
    /\ op' = "generate_recommendations"
    /\ ai_processor
    /\ ~PrimaryInterest(args'.extracted_info).raised
    /\ PrimaryInterest(args'.extracted_info).key = key

\* C28: a cache entry never expires.  A non-empty list stored under a key
\* stays under it through every step but clear_cache, add_course included,
\* and every request with that key returns that list; after clear_cache the
\* cache is empty and the next request misses.
C28_EntriesNeverExpire ==
    [][/\ \A key \in StoredKeys :
             /\ op' # "clear_cache" => (key \in DOMAIN cache' /\ cache'[key] = cache[key])
             /\ RequestsKey(key) =>
                  (result'.recommendations = cache[key] /\ "cache_hit" \in trace')
       /\ op' = "clear_cache" => cache' = EmptyDict
       /\ (op = "clear_cache" /\ op' = "generate_recommendations") => "cache_hit" \notin trace'
      ]_vars

\* C28's case: a request answered from the cache with a list that scoring
\* over the catalog as it stands would not produce: the entry was stored
\* before add_course changed the catalog
C28_WitnessStaleHit ==
    /\ Generated
    /\ "cache_hit" \in trace
    /\ result.recommendations # <<>>
    /\ LET fresh == generate_smart_recommendations(args.extracted_info)
       IN  \/ fresh.raised
           \/ result.recommendations #
                [i \in 1..Len(fresh.courses) |-> Formatted(fresh.courses[i], args.extracted_info)]

-----------------------------------------------------------------------------
(* C29: the answer depends on the request's own signals only               *)

\* the list the handler produces from the signal set and the catalog alone,
\* that is over an empty cache: the general list when the scoring raises,
\* else the scored list, formatted
OwnList(extracted_info) ==
    LET scored == generate_smart_recommendations(extracted_info)
    IN  IF PrimaryInterest(extracted_info).raised \/ scored.raised
        THEN generate_general_recommendations(courses)
        ELSE [i \in 1..Len(scored.courses) |-> Formatted(scored.courses[i], extracted_info)]

\* C29: the list generate_recommendations returns depends only on the
\* request's signal set and the catalog, not on earlier requests: of two
\* signal sets with the same first career goal and different remaining goals
\* or subjects, each gets the list scoring its own signals produces, in
\* whatever order they arrive.
C29_OwnSignalsOnly ==
    (Generated /\ ai_processor) => result.recommendations = OwnList(args.extracted_info)

\* C29 for the requests that are not answered from the cache
C29_OwnListOnMiss ==
    (Generated /\ ai_processor /\ "cache_hit" \notin trace) =>
       result.recommendations = OwnList(args.extracted_info)

\* a request answered with the list stored for another signal set of the
\* same first goal, where its own signals produce another list
C29_ServedAnothersList ==
    /\ Generated
    /\ "cache_hit" \in trace
    /\ result.recommendations # OwnList(args.extracted_info)

-----------------------------------------------------------------------------
(* C30: AIProcessor.generate_course_recommendations                        *)

AiCalled == op = "generate_course_recommendations"

\* the score of a course of the call, by its identifier
AiScoreOf(id) ==
    AiScore(CourseById(args.courses, id),
            Get(args.student_profile, "career_goals", <<>>),
            Get(args.student_profile, "preferred_subjects", <<>>))

\* the courses of the call that score
Scoring == {id \in CourseIds(args.courses) : AiScoreOf(id) > 0}

\* C30: generate_course_recommendations returns the max_recommendations
\* highest-scoring courses among those of positive score (3 for every career
\* goal equal to a career tag, 2 for every preferred subject found in the
\* title, the description or a skill), ordered by descending score; a
\* scoring course is never dropped in favour of a lower-scoring one.
C30_TopByScore ==
    AiCalled =>
       /\ Range(IdsOf(result)) \subseteq Scoring
       /\ Len(result) = Min(args.max_recommendations, Cardinality(Scoring))
       /\ \A i \in 1..Len(result) : \A j \in 1..Len(result) :
             i < j => AiScoreOf(result[i].course_id) >= AiScoreOf(result[j].course_id)
       /\ \A id \in Scoring \ Range(IdsOf(result)) :
             \A i \in 1..Len(result) : AiScoreOf(result[i].course_id) >= AiScoreOf(id)

\* C30 without the order: scoring courses only, max_recommendations of them
\* or all, each once
C30_ScoringCoursesOnly ==
    AiCalled =>
       /\ Range(IdsOf(result)) \subseteq Scoring
       /\ Len(result) = Min(args.max_recommendations, Cardinality(Scoring))
       /\ NoRepeats(IdsOf(result))

\* a scoring course is left out and a course of lower score is returned
C30_DroppedForLower ==
    /\ AiCalled
    /\ \E id \in Scoring \ Range(IdsOf(result)) :
          \E i \in 1..Len(result) : AiScoreOf(result[i].course_id) < AiScoreOf(id)
====
